---- MODULE Spec2Model ----
(***************************************************************************)
(* Model of the real-time pipeline of the sedentary tracker server:        *)
(*   - the hardware (serial) listener thread        (serial.rs)            *)
(*   - the liveness state and the fallback monitor  (fallback.rs)          *)
(*   - the database backfill replay                 (fallback.rs)          *)
(*   - the file replay task                         (replay.rs)            *)
(*   - the SSE observers                            (sse.rs)               *)
(*   - the broadcast channel created in main        (main.rs)              *)
(* The Redis list "sensor_history" and the table "sedentary_log" are       *)
(* modelled through the commands the code issues on them.                  *)
(***************************************************************************)
EXTENDS Integers, Sequences, FiniteSets, TLC

(***************************************************************************)
(* Bounds of the model.  The configuration values are read from the        *)
(* environment by the code; the model runs them at small values.           *)
(***************************************************************************)
\* FALLBACK_TIMEOUT_SECONDS (default 10), fallback.rs:13-18
TimeoutSeconds == 2
\* the clock (whole seconds since start) is explored up to this value
MaxTime == 3
\* number of valid readings the serial thread parses
MaxReadings == 2
\* rows in sedentary_log when the server starts: 0..MaxRows
MaxRows == 3
\* FALLBACK_BATCH_SIZE (default 500), fallback.rs:20-25
BatchSize == 2
\* SENSOR_HISTORY_LIMIT (default 500), serial.rs:36-41 and sse.rs:40-43
HistoryLimit == 2
\* number of entries the backfill's LTRIM 0 99 keeps (100), fallback.rs:194
BackfillKeep == 1
\* broadcast::channel(100), main.rs:48
ChannelCapacity == 2
\* valid readings in the replay log file
MaxLines == 1
\* SMOOTHING_WINDOW (10), serial.rs:42 and replay.rs:13
SMOOTHING_WINDOW == 2
\* lines a classifying source reads while its classifier is examined
MaxSamples == 3
\* second labels of the readings: 1..MaxLabel
MaxLabel == 2
\* ALERT_LIMIT_SECONDS (default 1200), serial.rs:28-33: 1..MaxAlertLimit
MaxAlertLimit == 2
\* SSE clients
Observers == {"o1", "o2"}

VARIABLES
    now,                \* current_timestamp(): whole seconds
    last_data_time,     \* FallbackState.last_data_time
    is_fallback_active, \* FallbackState.is_fallback_active
    redis_up,           \* whether the Redis server answers
    sensor_history,     \* the Redis list "sensor_history", head first
    pushed,             \* every message LPUSHed to sensor_history, in order
    sedentary_log,      \* the table sedentary_log, in created_at order
    tx,                 \* every message sent on the broadcast channel, in order
    hw_pc,              \* serial thread: position
    hw_n,               \* serial thread: readings parsed so far
    hw_call_fallback,   \* flag value when the current record_data_received began
    mon_pc,             \* fallback monitor task: position
    seconds_idle,       \* monitor local: seconds_idle
    redis_conn,         \* backfill local: redis_conn.is_some()
    rows_chronological, \* backfill local: the rows being replayed
    bf_idx,             \* backfill local: index of the row of this iteration
    bf_start,           \* Len(tx) when the current/last backfill began
    bf_table,           \* sedentary_log as it was when the rows were fetched
    bf_outcome,         \* how the current/last backfill call went
    bf_flip_at,         \* records sent by the batch when the flag was cleared, -1: not cleared
    bf_flip_pc,         \* where the backfill was when the flag was cleared
    replay_pc,          \* replay task: position
    replay_idx,         \* replay task: readings processed
    obs_pc,             \* per observer: position in create_sensor_stream
    obs_history,        \* per observer: history still to be yielded
    rx,                 \* per observer: number of channel messages passed
    obs_start,          \* per observer: Len(tx) at subscribe
    obs_out,            \* per observer: the events yielded so far
    acc_buffer,         \* serial thread local: acc_buffer
    sedentary_timer,    \* serial thread local: sedentary_timer
    last_second,        \* serial thread local: last_second, <<>> is None
    serial_lines,       \* every line the serial thread has read, in order
    replay_acc_buffer,  \* replay_log_file local: acc_buffer
    replay_sedentary_timer, \* replay_log_file local: sedentary_timer
    replay_last_second, \* replay_log_file local: last_second, <<>> is None
    file_lines,         \* every line replay_log_file has read, in order
    alert_limit,        \* ALERT_LIMIT_SECONDS of this process
    row_data,           \* the columns of each sedentary_log row, by row id
    db_rx,              \* db worker: number of channel messages passed
    db_pc,              \* db worker: position
    env,                \* the settings in the environment of this process
    replay2_pc,         \* a second replay task: position
    replay2_idx,        \* a second replay task: readings processed
    replay2_acc_buffer, \* second replay_log_file call, local: acc_buffer
    replay2_sedentary_timer, \* second call, local: sedentary_timer
    replay2_last_second, \* second call, local: last_second, <<>> is None
    file2_lines         \* every line the second call has read, in order

vars == <<now, last_data_time, is_fallback_active, redis_up, sensor_history,
          pushed, bf_flip_pc, sedentary_log, tx, hw_pc, hw_n, hw_call_fallback, mon_pc,
          seconds_idle, redis_conn, rows_chronological, bf_idx, bf_start,
          bf_table, bf_outcome, bf_flip_at, replay_pc, replay_idx, obs_pc,
          obs_history, rx, obs_start, obs_out, acc_buffer, sedentary_timer,
          last_second, serial_lines, replay_acc_buffer,
          replay_sedentary_timer, replay_last_second, file_lines,
          alert_limit, row_data, db_rx, db_pc, env, replay2_pc, replay2_idx,
          replay2_acc_buffer, replay2_sedentary_timer, replay2_last_second,
          file2_lines>>

liveness_vars == <<now, last_data_time, is_fallback_active>>
cache_vars == <<sensor_history, pushed>>
flip_vars == <<bf_flip_at, bf_flip_pc>>
hw_vars == <<hw_pc, hw_n, hw_call_fallback>>
mon_vars == <<mon_pc, seconds_idle, redis_conn, rows_chronological, bf_idx,
              bf_start, bf_table, bf_outcome>>
replay_vars == <<replay_pc, replay_idx>>
obs_vars == <<obs_pc, obs_history, rx, obs_start, obs_out>>
serial_cls_vars == <<acc_buffer, sedentary_timer, last_second, serial_lines>>
replay_cls_vars == <<replay_acc_buffer, replay_sedentary_timer,
                     replay_last_second, file_lines>>
store_vars == <<row_data, db_rx, db_pc>>
config_vars == <<env, alert_limit>>
replay2_vars == <<replay2_pc, replay2_idx, replay2_acc_buffer,
                  replay2_sedentary_timer, replay2_last_second, file2_lines>>
content_vars == <<serial_cls_vars, replay_cls_vars, config_vars, store_vars,
                  replay2_vars>>

(***************************************************************************)
(* Helpers                                                                 *)
(***************************************************************************)
Min(a, b) == IF a < b THEN a ELSE b
Max(a, b) == IF a > b THEN a ELSE b

Reverse(s) == [i \in 1..Len(s) |-> s[Len(s) + 1 - i]]

\* A serialized ProcessedState, identified by its producer and its
\* generation number within that producer; row is the sedentary_log row a
\* backfill record was built from (0 otherwise).
Msg(src, n, row) == [src |-> src, n |-> n, row |-> row]

(***************************************************************************)
(* Redis list commands, with Redis' index rules (inclusive stop, negative  *)
(* indexes count from the tail, out-of-range indexes are clamped).         *)
(***************************************************************************)
RedisIndex(len, i) == IF i < 0 THEN Max(len + i, 0) ELSE i

LPush(list, v) == <<v>> \o list

LRange(list, start, stop) ==
    LET s == RedisIndex(Len(list), start)
        e == Min(RedisIndex(Len(list), stop), Len(list) - 1)
    IN  IF s > e THEN <<>> ELSE SubSeq(list, s + 1, e + 1)

LTrim(list, start, stop) == LRange(list, start, stop)

\* (mutation) a channel whose send waits while a subscribed receiver has
\* ChannelCapacity unread messages, as a bounded queue would
SendWhenRoom(msg) ==
    /\ \A o \in Observers :
          obs_pc[o] = "live" => Len(tx) - rx[o] < ChannelCapacity
    /\ tx' = Append(tx, msg)

(***************************************************************************)
(* broadcast::Sender::send: appends to the channel and never waits for a   *)
(* receiver.  The receiver _rx created in main is kept for the life of     *)
(* main and never reads, so send always has a receiver and always stores.  *)
(***************************************************************************)
Send(msg) == tx' = Append(tx, msg)

\* The channel retains the last ChannelCapacity messages; a receiver whose
\* next message was overwritten has lagged.
Lagged(o) == Len(tx) - rx[o] > ChannelCapacity

IsDb(m) == m.src = "db"
IsHw(m) == m.src = "hw"
IsFile(m) == m.src = "file"

\* The rows the current/last backfill has sent on the channel, in send order.
BatchSent == SelectSeq(SubSeq(tx, bf_start + 1, Len(tx)), IsDb)
BatchRows == [i \in 1..Len(BatchSent) |-> BatchSent[i].row]

\* The monitor task is inside backfill_from_database.
InBackfill == mon_pc \in {"backfill", "bf_check", "bf_send", "bf_lpush", "bf_ltrim"}

(***************************************************************************)
(* The classifier (serial.rs 96-139, repeated in replay.rs 68-110).  An    *)
(* acceleration is a whole number of thousandths; a mean is kept as the    *)
(* exact fraction num/den, so that a comparison with a threshold is the    *)
(* comparison of num with threshold * den.                                 *)
(***************************************************************************)
\* THRESH_FIDGET (default 0.020) and THRESH_ACTIVE (default 0.040)
thresh_fidget == 20
thresh_active == 40

\* acceleration magnitudes of the readings, in thousandths
AccValues == {20, 60}

\* A line of input.  kind "json": a line that is a RawReading object;
\* "prefixed": the same after a "[timestamp] " prefix; "bad_json": a line
\* with a '{' that serde_json rejects; "text": a line without a '{'.
RawReading(ts, pir, acc) == [ts |-> ts, pir |-> pir, acc |-> acc]
Line(kind, reading) == [kind |-> kind, reading |-> reading]
Readings == {RawReading(ts, pir, acc) :
                ts \in 1..MaxLabel, pir \in {0, 1}, acc \in AccValues}
NoReading == RawReading(0, 0, 0)
GarbageLines == {Line("bad_json", NoReading), Line("text", NoReading)}

\* (mutation) every line taken for a reading
SerialParsesAny(line) == TRUE

\* serial.rs: clean_line.starts_with('{') and serde_json::from_str is Ok
SerialParses(line) == line.kind = "json"
\* replay.rs: from the first '{' on, serde_json::from_str is Ok
ReplayParses(line) == line.kind \in {"json", "prefixed"}

RECURSIVE SumSeq(_)
SumSeq(s) == IF s = <<>> THEN 0 ELSE Head(s) + SumSeq(Tail(s))

\* (mutation) a buffer that evicts only once it holds more than the window
PushAccLate(buffer, acc) ==
    Append(IF Len(buffer) > SMOOTHING_WINDOW THEN Tail(buffer) ELSE buffer,
           acc)

\* if acc_buffer.len() >= SMOOTHING_WINDOW { pop_front() }; push_back(acc)
PushAcc(buffer, acc) ==
    Append(IF Len(buffer) >= SMOOTHING_WINDOW THEN Tail(buffer) ELSE buffer,
           acc)

\* acc_buffer.iter().sum() / acc_buffer.len(), 0.0 if empty
SmoothedAcc(buffer) ==
    IF buffer = <<>> THEN [num |-> 0, den |-> 1]
    ELSE [num |-> SumSeq(buffer), den |-> Len(buffer)]

\* smoothed_acc > threshold
Above(smoothed, threshold) == smoothed.num > threshold * smoothed.den

\* (mutation) the thresholds compared with >=
classify_state_inclusive(pir, smoothed_acc) ==
    IF pir = 1 \/ smoothed_acc.num >= thresh_active * smoothed_acc.den
    THEN "ACTIVE"
    ELSE IF smoothed_acc.num >= thresh_fidget * smoothed_acc.den
         THEN "FIDGET"
         ELSE "SEDENTARY"

\* serial.rs classify_state
classify_state(pir, smoothed_acc) ==
    IF pir = 1 \/ Above(smoothed_acc, thresh_active) THEN "ACTIVE"
    ELSE IF Above(smoothed_acc, thresh_fidget) THEN "FIDGET"
    ELSE "SEDENTARY"

\* replay.rs classify_state
replay_classify_state(pir, smoothed_acc) ==
    IF pir = 1 \/ Above(smoothed_acc, thresh_active) THEN "ACTIVE"
    ELSE IF Above(smoothed_acc, thresh_fidget) THEN "FIDGET"
    ELSE "SEDENTARY"

\* (mutation) the timer re-evaluated on every reading
SecondChangedAlways(last, current_second) == TRUE

\* last_second.as_ref() != Some(&current_second)
SecondChanged(last, current_second) == last # <<current_second>>

\* (mutation) FIDGET resets the timer as ACTIVE does
TimerAfterFidgetResets(state, timer) ==
    CASE state = "SEDENTARY" -> timer + 1
      [] OTHER -> 0

\* (mutation) ACTIVE leaves the timer as FIDGET does
TimerAfterActiveKeeps(state, timer) ==
    CASE state = "SEDENTARY" -> timer + 1
      [] OTHER -> timer

\* match state.as_str() { "ACTIVE" => 0, "FIDGET" => {}, "SEDENTARY" => += 1 }
TimerAfter(state, timer) ==
    CASE state = "ACTIVE" -> 0
      [] state = "FIDGET" -> timer
      [] state = "SEDENTARY" -> timer + 1
      [] OTHER -> timer

\* (mutation) the alert raised only above the limit
AlertStrict(timer, limit) == timer > limit

\* sedentary_timer >= alert_limit_sec()
Alert(timer, limit) == timer >= limit

\* The serialized ProcessedState {state, timer, val, alert, timestamp}; the
\* timestamp is today's date at the reading's time of day.  src, n and row
\* identify the message as in Msg.
ProcessedState(src, n, state, timer, val, alert, timestamp) ==
    [src |-> src, n |-> n, row |-> 0, state |-> state, timer |-> timer,
     val |-> val, alert |-> alert, timestamp |-> timestamp]

(***************************************************************************)
(* The table sedentary_log.  A row keeps the columns the db worker writes  *)
(* (state, timer_seconds, acceleration_val) and created_at; published is   *)
(* the channel message the row was written from.                           *)
(***************************************************************************)
Row(state, timer_seconds, acceleration_val, created_at, published) ==
    [state |-> state, timer_seconds |-> timer_seconds,
     acceleration_val |-> acceleration_val, created_at |-> created_at,
     published |-> published]

\* data.timer as i32: the low 32 bits of the u64 read as a signed number,
\* the timer itself below 2^31 (timers from 2^31 on wrap to negative
\* values; the timers of the model stay below)
TimerAsI32(timer) ==
    CASE timer <= 2147483647 -> timer

\* A row left by an earlier run of the server: the i-th second of a
\* sedentary streak, published by the serial thread.
EarlierRow(i) ==
    LET published == ProcessedState("hw", i, "SEDENTARY", i,
                                    [num |-> thresh_fidget, den |-> 1],
                                    Alert(i, MaxAlertLimit), i)
    IN  Row(published.state, TimerAsI32(published.timer), published.val, 0,
            published)

(***************************************************************************)
(* Configuration.  Every setting is read with                              *)
(*   env::var(NAME).ok().and_then(|s| s.parse().ok()).unwrap_or(default)   *)
(* A setting is unset, set to text that does not parse, or set to a        *)
(* number.  The model runs the thresholds, the timeout, the batch size,    *)
(* the history limit and the interval at the values of its bounds whatever *)
(* the setting; the alert limit is the one the environment gives.          *)
(***************************************************************************)
Settings == {"THRESH_FIDGET", "THRESH_ACTIVE", "ALERT_LIMIT_SECONDS",
             "SENSOR_HISTORY_LIMIT", "FALLBACK_TIMEOUT_SECONDS",
             "FALLBACK_BATCH_SIZE", "FALLBACK_REPLAY_INTERVAL_MS"}

Setting(kind, value) == [kind |-> kind, value |-> value]
Unset == Setting("unset", 0)
Invalid == Setting("invalid", 0)
Number(value) == Setting("number", value)

\* .ok().and_then(|s| s.parse().ok()).unwrap_or(default)
ParseOrDefault(setting, default) ==
    IF setting.kind = "number" THEN setting.value ELSE default

\* the default of ALERT_LIMIT_SECONDS (1200) is the largest limit of the model
DefaultAlertLimit == MaxAlertLimit

alert_limit_sec(e) == ParseOrDefault(e["ALERT_LIMIT_SECONDS"], DefaultAlertLimit)

NoSettings == [s \in Settings |-> Unset]
WithAlertLimit(limit) ==
    [NoSettings EXCEPT !["ALERT_LIMIT_SECONDS"] = Number(limit)]

(***************************************************************************)
(* Initial state: main has created the channel and FallbackState::new(),   *)
(* spawned the serial thread and the monitor; no client is connected.      *)
(* sedentary_log holds the rows of earlier runs, identified by their id.   *)
(***************************************************************************)
InitState ==
    /\ last_data_time = 0
    /\ is_fallback_active = FALSE
    /\ sensor_history = <<>>
    /\ pushed = <<>>
    /\ \E k \in 0..MaxRows : sedentary_log = [i \in 1..k |-> i]
    /\ tx = <<>>
    /\ hw_n = 0
    /\ hw_call_fallback = FALSE
    /\ mon_pc = "tick"
    /\ seconds_idle = 0
    /\ redis_conn = FALSE
    /\ rows_chronological = <<>>
    /\ bf_idx = 0
    /\ bf_start = 0
    /\ bf_table = <<>>
    /\ bf_outcome = "none"
    /\ bf_flip_at = -1
    /\ bf_flip_pc = "none"
    /\ replay_pc = "off"
    /\ replay_idx = 0
    /\ obs_pc = [o \in Observers |-> "idle"]
    /\ obs_history = [o \in Observers |-> <<>>]
    /\ rx = [o \in Observers |-> 0]
    /\ obs_start = [o \in Observers |-> 0]
    /\ obs_out = [o \in Observers |-> <<>>]
    /\ acc_buffer = <<>>
    /\ sedentary_timer = 0
    /\ last_second = <<>>
    /\ serial_lines = <<>>
    /\ replay_acc_buffer = <<>>
    /\ replay_sedentary_timer = 0
    /\ replay_last_second = <<>>
    /\ file_lines = <<>>
    /\ replay2_pc = "off"
    /\ replay2_idx = 0
    /\ replay2_acc_buffer = <<>>
    /\ replay2_sedentary_timer = 0
    /\ replay2_last_second = <<>>
    /\ file2_lines = <<>>
    /\ row_data = [i \in 1..Len(sedentary_log) |-> EarlierRow(i)]
    /\ db_rx = 0
    /\ db_pc = "run"

Init ==
    /\ now = 0
    /\ hw_pc = "open"
    /\ redis_up \in BOOLEAN
    /\ env = NoSettings
    /\ alert_limit = alert_limit_sec(env)
    /\ InitState

(***************************************************************************)
(* Environment: the clock.  The Redis server answers, or does not, for the  *)
(* whole run (chosen in Init).                                             *)
(***************************************************************************)
\* a second passes, while the clock is below limit
ClockTick(limit) ==
    /\ now < limit
    /\ now' = now + 1
    /\ UNCHANGED <<last_data_time, is_fallback_active, redis_up, cache_vars,
                   sedentary_log, content_vars, tx, hw_vars, mon_vars, flip_vars,
                   replay_vars, obs_vars>>

TimePasses == ClockTick(MaxTime)

(***************************************************************************)
(* Serial listener thread (serial.rs), one valid reading at a time.        *)
(* record_data_received is three atomic operations: store, load, store.    *)
(***************************************************************************)
HwMsg == Msg("hw", hw_n, 0)

\* (mutation) an open error that ends the whole process, the monitor with it
HwOpenFatal ==
    /\ hw_pc = "open"
    /\ \E opened \in BOOLEAN :
         IF opened
         THEN hw_pc' = "read" /\ UNCHANGED mon_pc
         ELSE hw_pc' = "exited" /\ mon_pc' = "exited"
    /\ UNCHANGED <<liveness_vars, redis_up, cache_vars, sedentary_log,
                   content_vars, tx, hw_n, hw_call_fallback, seconds_idle,
                   redis_conn, rows_chronological, bf_idx, bf_start,
                   bf_table, bf_outcome, flip_vars, replay_vars, obs_vars>>

\* serialport::new(..).open(): Ok enters the read loop, Err is logged and
\* the thread ends
HwOpen ==
    /\ hw_pc = "open"
    /\ \E opened \in BOOLEAN : hw_pc' = IF opened THEN "read" ELSE "exited"
    /\ UNCHANGED <<liveness_vars, redis_up, cache_vars, sedentary_log, content_vars, tx,
                   hw_n, hw_call_fallback, mon_vars, flip_vars, replay_vars,
                   obs_vars>>

\* read_line returned a line that parses as a RawReading;
\* record_data_received: last_data_time.store(current_timestamp())
HwRead ==
    /\ hw_pc = "read"
    /\ hw_n < MaxReadings
    /\ hw_n' = hw_n + 1
    /\ last_data_time' = now
    /\ hw_call_fallback' = is_fallback_active
    /\ hw_pc' = "rdr_load"
    /\ UNCHANGED <<now, is_fallback_active, redis_up, cache_vars,
                   sedentary_log, content_vars, tx, mon_vars, flip_vars, replay_vars, obs_vars>>

\* record_data_received: if is_fallback_active.load()
HwLoadFlag ==
    /\ hw_pc = "rdr_load"
    /\ hw_pc' = IF is_fallback_active THEN "rdr_clear" ELSE "rdr_ret"
    /\ UNCHANGED <<liveness_vars, redis_up, cache_vars, sedentary_log, content_vars, tx,
                   hw_n, hw_call_fallback, mon_vars, flip_vars, replay_vars,
                   obs_vars>>

\* record_data_received: is_fallback_active.store(false)
HwClearFlag ==
    /\ hw_pc = "rdr_clear"
    /\ is_fallback_active' = FALSE
    /\ hw_pc' = "rdr_log"
    /\ IF InBackfill /\ bf_flip_at = -1
       THEN bf_flip_at' = Len(BatchSent) /\ bf_flip_pc' = mon_pc
       ELSE UNCHANGED flip_vars
    /\ UNCHANGED <<now, last_data_time, redis_up, cache_vars, sedentary_log, content_vars,
                   tx, hw_n, hw_call_fallback, mon_vars, replay_vars, obs_vars>>

\* record_data_received: println!("Hardware reconnected ..."), and return
HwLogReconnected ==
    /\ hw_pc = "rdr_log"
    /\ hw_pc' = "rdr_ret"
    /\ UNCHANGED <<liveness_vars, redis_up, cache_vars, sedentary_log, content_vars, tx,
                   hw_n, hw_call_fallback, mon_vars, flip_vars, replay_vars,
                   obs_vars>>

\* record_data_received has returned; the reading is smoothed and classified,
\* then get_multiplexed_async_connection and LPUSH sensor_history.
HwLPush ==
    /\ hw_pc = "rdr_ret"
    /\ hw_call_fallback' = FALSE
    /\ IF redis_up
       THEN /\ sensor_history' = LPush(sensor_history, HwMsg)
            /\ pushed' = Append(pushed, HwMsg)
            /\ hw_pc' = "ltrim"
       ELSE /\ hw_pc' = "send"
            /\ UNCHANGED cache_vars
    /\ UNCHANGED <<liveness_vars, redis_up, sedentary_log, content_vars, tx, hw_n,
                   mon_vars, flip_vars, replay_vars, obs_vars>>

\* LTRIM sensor_history 0 sensor_history_limit()-1 (its error is dropped)
HwLTrim ==
    /\ hw_pc = "ltrim"
    /\ sensor_history' = IF redis_up
                         THEN LTrim(sensor_history, 0, HistoryLimit - 1)
                         ELSE sensor_history
    /\ UNCHANGED pushed
    /\ hw_pc' = "send"
    /\ UNCHANGED <<liveness_vars, redis_up, sedentary_log, content_vars, tx, hw_n,
                   hw_call_fallback, mon_vars, flip_vars, replay_vars, obs_vars>>

\* tx.send(json_out)
HwSend ==
    /\ hw_pc = "send"
    /\ Send(HwMsg)
    /\ hw_pc' = "read"
    /\ UNCHANGED <<liveness_vars, redis_up, cache_vars, sedentary_log, content_vars, hw_n,
                   hw_call_fallback, mon_vars, flip_vars, replay_vars, obs_vars>>

(***************************************************************************)
(* Fallback monitor task (fallback.rs).  The interval is a timer of the    *)
(* runtime: a tick can come at any moment the task waits for it (missed    *)
(* ticks are delivered back to back after a long backfill).                *)
(***************************************************************************)
\* seconds_since_last_data: current_timestamp().saturating_sub(last)
SecondsSinceLastData == Max(now - last_data_time, 0)

\* (mutation) the timeout compared with > instead of >=
ShouldEnterFallbackStrict(idle, active) == idle > TimeoutSeconds /\ ~active

\* the condition of the monitor's if, on its local seconds_idle and the
\* flag it loads
ShouldEnterFallback(idle, active) == idle >= TimeoutSeconds /\ ~active

\* (mutation) a tick that is also taken while the backfill sleeps between two
\* records, as with a backfill spawned as a task of its own
MonitorTickWhileAsleep ==
    /\ mon_pc \in {"tick", "bf_check"}
    /\ seconds_idle' = SecondsSinceLastData
    /\ mon_pc' = "check"
    /\ UNCHANGED <<liveness_vars, redis_up, cache_vars, sedentary_log, content_vars, tx,
                   hw_vars, redis_conn, rows_chronological, bf_idx, bf_start,
                   bf_table, bf_outcome, flip_vars, replay_vars, obs_vars>>

\* check_interval.tick().await; seconds_idle = seconds_since_last_data()
MonitorTick ==
    /\ mon_pc = "tick"
    /\ seconds_idle' = SecondsSinceLastData
    /\ mon_pc' = "check"
    /\ UNCHANGED <<liveness_vars, redis_up, cache_vars, sedentary_log, content_vars, tx,
                   hw_vars, redis_conn, rows_chronological, bf_idx, bf_start,
                   bf_table, bf_outcome, flip_vars, replay_vars, obs_vars>>

\* if seconds_idle >= timeout && !fallback_state.is_in_fallback(); the local
\* seconds_idle is not read after the test (the model clears it)
MonitorCheck ==
    /\ mon_pc = "check"
    /\ IF ShouldEnterFallback(seconds_idle, is_fallback_active)
       THEN mon_pc' = "enter" /\ UNCHANGED seconds_idle
       ELSE mon_pc' = "tick" /\ seconds_idle' = 0
    /\ UNCHANGED <<liveness_vars, redis_up, cache_vars, sedentary_log, content_vars, tx,
                   hw_vars, redis_conn, rows_chronological, bf_idx,
                   bf_start, bf_table, bf_outcome, flip_vars, replay_vars,
                   obs_vars>>

\* enter_fallback: is_fallback_active.swap(true); then the call of
\* backfill_from_database begins
MonitorEnter ==
    /\ mon_pc = "enter"
    /\ is_fallback_active' = TRUE
    /\ mon_pc' = "backfill"
    /\ seconds_idle' = 0
    /\ bf_start' = Len(tx)
    /\ bf_outcome' = "running"
    /\ bf_flip_at' = -1
    /\ bf_flip_pc' = "none"
    /\ rows_chronological' = <<>>
    /\ bf_idx' = 0
    /\ UNCHANGED <<now, last_data_time, redis_up, cache_vars, sedentary_log, content_vars,
                   tx, hw_vars, redis_conn, bf_table, replay_vars,
                   obs_vars>>

(***************************************************************************)
(* backfill_from_database (fallback.rs), run inside the monitor task.      *)
(***************************************************************************)
\* SELECT ... FROM sedentary_log ORDER BY created_at DESC LIMIT batch_size
FetchRows(table, limit) ==
    [i \in 1..Min(limit, Len(table)) |-> table[Len(table) + 1 - i]]

\* (mutation) the fetched rows replayed without the reversal
RowsAsFetched(rows) == rows

\* rows.into_iter().rev().collect()
RowsChronological(rows) == Reverse(rows)

\* (mutation) a loop that looks at the flag before every other row only
ContinueReplayEveryOther(active) == active \/ bf_idx % 2 = 0

\* (mutation) a loop that does not look at the flag
ContinueReplayAlways(active) == TRUE

\* the loop's test of the flag: the replay goes on while in fallback
ContinueReplay(active) == active

\* row.timer_seconds.unwrap_or(0) as u64 (a negative value, which the
\* writer's cast yields for timers from 2^31 on, would become 2^64 + t; the
\* timers of the model stay below)
TimerAsU64(timer_seconds) ==
    CASE timer_seconds >= 0 -> timer_seconds

\* the ProcessedState built from a row, as sent: state, timer and value are
\* the row's, the alert is computed from the timer and alert_limit_sec(),
\* the timestamp is the row's created_at
DbMsg(row) ==
    LET timer == TimerAsU64(row_data[row].timer_seconds)
    IN  [src |-> "db", n |-> Len(SelectSeq(tx, IsDb)) + 1, row |-> row,
         state |-> row_data[row].state, timer |-> timer,
         val |-> row_data[row].acceleration_val,
         alert |-> Alert(timer, alert_limit),
         timestamp |-> row_data[row].created_at]

\* (mutation) a backfill that leaves fallback when it has nothing to replay
BackfillFetchLeavesFallback ==
    /\ mon_pc = "backfill"
    /\ redis_conn' = redis_up
    /\ \E query_ok \in BOOLEAN :
         IF ~query_ok
         THEN /\ mon_pc' = "tick"
              /\ bf_outcome' = "error"
              /\ is_fallback_active' = FALSE
              /\ UNCHANGED <<rows_chronological, bf_idx, bf_table>>
         ELSE LET rows == FetchRows(sedentary_log, BatchSize) IN
              /\ bf_table' = sedentary_log
              /\ IF rows = <<>>
                 THEN /\ mon_pc' = "tick"
                      /\ bf_outcome' = "empty"
                      /\ is_fallback_active' = FALSE
                      /\ UNCHANGED <<rows_chronological, bf_idx>>
                 ELSE /\ rows_chronological' = RowsChronological(rows)
                      /\ bf_idx' = 1
                      /\ mon_pc' = "bf_check"
                      /\ UNCHANGED <<bf_outcome, is_fallback_active>>
    /\ UNCHANGED <<now, last_data_time, redis_up, cache_vars, sedentary_log,
                   content_vars, tx, hw_vars, seconds_idle, bf_start,
                   flip_vars, replay_vars, obs_vars>>

\* redis connection (.ok()), then the query; a query error returns Err,
\* no rows returns Ok early
BackfillFetch ==
    /\ mon_pc = "backfill"
    /\ redis_conn' = redis_up
    /\ \E query_ok \in BOOLEAN :
         IF ~query_ok
         THEN /\ mon_pc' = "tick"
              /\ bf_outcome' = "error"
              /\ UNCHANGED <<rows_chronological, bf_idx, bf_table>>
         ELSE LET rows == FetchRows(sedentary_log, BatchSize) IN
              /\ bf_table' = sedentary_log
              /\ IF rows = <<>>
                 THEN /\ mon_pc' = "tick"
                      /\ bf_outcome' = "empty"
                      /\ UNCHANGED <<rows_chronological, bf_idx>>
                 ELSE /\ rows_chronological' = RowsChronological(rows)
                      /\ bf_idx' = 1
                      /\ mon_pc' = "bf_check"
                      /\ UNCHANGED bf_outcome
    /\ UNCHANGED <<liveness_vars, redis_up, cache_vars, sedentary_log, content_vars, tx,
                   hw_vars, seconds_idle, bf_start, flip_vars, replay_vars,
                   obs_vars>>

\* (mutation) a loop that, finding the flag cleared, ends the monitor task
\* (return from the task's block instead of break)
BackfillCheckEndsMonitor ==
    /\ mon_pc = "bf_check"
    /\ IF ContinueReplay(is_fallback_active)
       THEN /\ mon_pc' = "bf_send"
            /\ UNCHANGED bf_outcome
       ELSE /\ mon_pc' = "exited"
            /\ bf_outcome' = "stopped"
    /\ UNCHANGED <<liveness_vars, redis_up, cache_vars, sedentary_log, content_vars, tx,
                   hw_vars, seconds_idle, redis_conn, rows_chronological, bf_idx,
                   bf_start, bf_table, flip_vars, replay_vars, obs_vars>>

\* top of the for loop: if !fallback_state.is_in_fallback() { break }
BackfillCheck ==
    /\ mon_pc = "bf_check"
    /\ IF ContinueReplay(is_fallback_active)
       THEN /\ mon_pc' = "bf_send"
            /\ UNCHANGED bf_outcome
       ELSE /\ mon_pc' = "tick"
            /\ bf_outcome' = "stopped"
    /\ UNCHANGED <<liveness_vars, redis_up, cache_vars, sedentary_log, content_vars, tx,
                   hw_vars, seconds_idle, redis_conn, rows_chronological, bf_idx,
                   bf_start, bf_table, flip_vars, replay_vars, obs_vars>>

\* the end of an iteration: sleep(replay_delay), then the next row or the
\* end of the loop
BackfillNext ==
    /\ bf_idx' = bf_idx + 1
    /\ IF bf_idx = Len(rows_chronological)
       THEN /\ mon_pc' = "tick"
            /\ bf_outcome' = "complete"
       ELSE /\ mon_pc' = "bf_check"
            /\ UNCHANGED bf_outcome

\* tx.send(json.clone())
BackfillSend ==
    /\ mon_pc = "bf_send"
    /\ Send(DbMsg(rows_chronological[bf_idx]))
    /\ IF redis_conn
       THEN /\ mon_pc' = "bf_lpush"
            /\ UNCHANGED <<bf_idx, bf_outcome>>
       ELSE BackfillNext
    /\ UNCHANGED <<liveness_vars, redis_up, cache_vars, sedentary_log, content_vars,
                   hw_vars, seconds_idle, redis_conn, rows_chronological,
                   bf_start, bf_table, flip_vars, replay_vars, obs_vars>>

\* (mutation) a backfill that returns the error of its LPUSH (con.lpush(..)?)
BackfillLPushOrReturn ==
    /\ mon_pc = "bf_lpush"
    /\ IF redis_up
       THEN /\ sensor_history' = LPush(sensor_history, BatchSent[Len(BatchSent)])
            /\ pushed' = Append(pushed, BatchSent[Len(BatchSent)])
            /\ mon_pc' = "bf_ltrim"
            /\ UNCHANGED bf_outcome
       ELSE /\ UNCHANGED cache_vars
            /\ mon_pc' = "tick"
            /\ bf_outcome' = "error"
    /\ UNCHANGED <<liveness_vars, redis_up, sedentary_log, content_vars, tx, hw_vars,
                   seconds_idle, redis_conn, rows_chronological, bf_idx,
                   bf_start, bf_table, flip_vars, replay_vars,
                   obs_vars>>

\* con.lpush("sensor_history", &json), result dropped
BackfillLPush ==
    /\ mon_pc = "bf_lpush"
    /\ IF redis_up
       THEN /\ sensor_history' = LPush(sensor_history, BatchSent[Len(BatchSent)])
            /\ pushed' = Append(pushed, BatchSent[Len(BatchSent)])
       ELSE UNCHANGED cache_vars
    /\ mon_pc' = "bf_ltrim"
    /\ UNCHANGED <<liveness_vars, redis_up, sedentary_log, content_vars, tx, hw_vars,
                   seconds_idle, redis_conn, rows_chronological, bf_idx,
                   bf_start, bf_table, bf_outcome, flip_vars, replay_vars,
                   obs_vars>>

\* con.ltrim("sensor_history", 0, 99), result dropped; then the sleep
BackfillLTrim ==
    /\ mon_pc = "bf_ltrim"
    /\ sensor_history' = IF redis_up
                         THEN LTrim(sensor_history, 0, BackfillKeep - 1)
                         ELSE sensor_history
    /\ UNCHANGED pushed
    /\ BackfillNext
    /\ UNCHANGED <<liveness_vars, redis_up, sedentary_log, content_vars, tx, hw_vars,
                   seconds_idle, redis_conn, rows_chronological, bf_start,
                   bf_table, flip_vars, replay_vars, obs_vars>>

(***************************************************************************)
(* File replay task (replay.rs), started by GET /api/replay.  It has only  *)
(* the channel sender: it does not touch Redis or the FallbackState.       *)
(***************************************************************************)
\* spawn_replay_task: File::open succeeded
ReplayStart ==
    /\ replay_pc = "off"
    /\ replay_pc' = "run"
    /\ UNCHANGED <<liveness_vars, redis_up, cache_vars, sedentary_log, content_vars, tx,
                   hw_vars, mon_vars, flip_vars, replay_idx, obs_vars>>

\* spawn_replay_task: File::open failed; replay_log_file returns Err before
\* its loop, the task logs "Replay error" and ends
ReplayOpenFails ==
    /\ replay_pc = "off"
    /\ replay_pc' = "failed"
    /\ UNCHANGED <<liveness_vars, redis_up, cache_vars, sedentary_log,
                   content_vars, tx, hw_vars, mon_vars, flip_vars,
                   replay_idx, obs_vars>>

\* (mutation) a replay that reports each reading to the FallbackState, as
\* the serial thread does
ReplayLineNotifies ==
    /\ replay_pc = "run"
    /\ replay_idx < MaxLines
    /\ replay_idx' = replay_idx + 1
    /\ last_data_time' = now
    /\ is_fallback_active' = FALSE
    /\ Send(Msg("file", replay_idx + 1, 0))
    /\ replay_pc' = IF replay_idx + 1 = MaxLines THEN "done" ELSE "run"
    /\ UNCHANGED <<now, redis_up, cache_vars, sedentary_log, content_vars,
                   hw_vars, mon_vars, flip_vars, obs_vars>>

\* one valid line: classified, tx.send(json_out), count += 1, sleep; after
\* the last line reader.lines() is exhausted and the task returns Ok(count)
ReplayLine ==
    /\ replay_pc = "run"
    /\ replay_idx < MaxLines
    /\ replay_idx' = replay_idx + 1
    /\ Send(Msg("file", replay_idx + 1, 0))
    /\ replay_pc' = IF replay_idx + 1 = MaxLines THEN "done" ELSE "run"
    /\ UNCHANGED <<liveness_vars, redis_up, cache_vars, sedentary_log, content_vars,
                   hw_vars, mon_vars, flip_vars, obs_vars>>

(***************************************************************************)
(* SSE observers (sse.rs, create_sensor_stream).                           *)
(***************************************************************************)
\* (mutation) the history sent as stored, newest first
HistoryAsStored(history) == history

\* history.into_iter().rev(): the list is newest first, the client gets it
\* oldest first
HistoryToYield(history) == Reverse(history)

Event(kind, msg) == [kind |-> kind, msg |-> msg]

\* (mutation) a receiver that returns the newest message, not its next one
RecvNewest(o) == tx[Len(tx)]

\* the message rx.recv() returns when the receiver has not lagged
RecvNext(o) == tx[rx[o] + 1]

\* (the clients are interchangeable: o1 names the first to connect)
\* Step 1: connection to Redis and LRANGE sensor_history 0 limit-1; a
\* failed connection or command gives no history
ObsFetchHistory(o) ==
    /\ obs_pc[o] = "idle"
    /\ o = "o2" => obs_pc["o1"] # "idle"
    /\ obs_history' = [obs_history EXCEPT ![o] =
           IF redis_up
           THEN HistoryToYield(LRange(sensor_history, 0, HistoryLimit - 1))
           ELSE <<>>]
    /\ obs_pc' = [obs_pc EXCEPT ![o] = "history"]
    /\ UNCHANGED <<liveness_vars, redis_up, cache_vars, sedentary_log, content_vars, tx,
                   hw_vars, mon_vars, flip_vars, replay_vars, rx, obs_start,
                   obs_out>>

\* yield of one history message
ObsYieldHistory(o) ==
    /\ obs_pc[o] = "history"
    /\ obs_history[o] # <<>>
    /\ obs_out' = [obs_out EXCEPT ![o] =
                     Append(@, Event("history", Head(obs_history[o])))]
    /\ obs_history' = [obs_history EXCEPT ![o] = Tail(@)]
    /\ UNCHANGED <<liveness_vars, redis_up, cache_vars, sedentary_log, content_vars, tx,
                   hw_vars, mon_vars, flip_vars, replay_vars, obs_pc, rx,
                   obs_start>>

\* Step 2: state.tx.subscribe(): the receiver starts at the channel's tail
ObsSubscribe(o) ==
    /\ obs_pc[o] = "history"
    /\ obs_history[o] = <<>>
    /\ rx' = [rx EXCEPT ![o] = Len(tx)]
    /\ obs_start' = [obs_start EXCEPT ![o] = Len(tx)]
    /\ obs_pc' = [obs_pc EXCEPT ![o] = "live"]
    /\ UNCHANGED <<liveness_vars, redis_up, cache_vars, sedentary_log, content_vars, tx,
                   hw_vars, mon_vars, flip_vars, replay_vars, obs_history,
                   obs_out>>

\* while let Ok(msg) = rx.recv().await { yield }: recv returns the next
\* message, or Err(Lagged) when it was overwritten, which ends the loop
ObsRecv(o) ==
    /\ obs_pc[o] = "live"
    /\ rx[o] < Len(tx)
    /\ IF Lagged(o)
       THEN /\ obs_pc' = [obs_pc EXCEPT ![o] = "ended"]
            /\ rx' = [rx EXCEPT ![o] = Len(tx) - ChannelCapacity]
            /\ UNCHANGED obs_out
       ELSE /\ obs_out' = [obs_out EXCEPT ![o] =
                             Append(@, Event("live", RecvNext(o)))]
            /\ rx' = [rx EXCEPT ![o] = rx[o] + 1]
            /\ UNCHANGED obs_pc
    /\ UNCHANGED <<liveness_vars, redis_up, cache_vars, sedentary_log, content_vars, tx,
                   hw_vars, mon_vars, flip_vars, replay_vars, obs_history,
                   obs_start>>

(***************************************************************************)
(* Specifications                                                          *)
(***************************************************************************)
HardwareStep ==
    \/ HwOpen
    \/ HwRead
    \/ HwLoadFlag
    \/ HwClearFlag
    \/ HwLogReconnected
    \/ HwLPush
    \/ HwLTrim
    \/ HwSend

MonitorStep ==
    \/ MonitorTick
    \/ MonitorCheck
    \/ MonitorEnter
    \/ BackfillFetch
    \/ BackfillCheck
    \/ BackfillSend
    \/ BackfillLPush
    \/ BackfillLTrim

ReplayStep ==
    \/ ReplayStart
    \/ ReplayLine

ObserverStep ==
    \/ \E o \in Observers : ObsFetchHistory(o)
    \/ \E o \in Observers : ObsYieldHistory(o)
    \/ \E o \in Observers : ObsSubscribe(o)
    \/ \E o \in Observers : ObsRecv(o)

\* Liveness tracking and fallback: the serial thread, the monitor with its
\* backfill, and the clock.
Next ==
    \/ TimePasses
    \/ HardwareStep
    \/ MonitorStep

Spec == Init /\ [][Next]_vars

\* Distribution: the producers, the history cache and the observers, with
\* the clock held still.  Either the serial port is open and the server has
\* just started (the hardware publishes, the monitor finds no idle time),
\* or the port could not be opened and the timeout has elapsed since start
\* (the monitor enters fallback and the backfill publishes).  The file
\* replay runs in both.
InitDist ==
    /\ InitState
    /\ redis_up = TRUE
    /\ env = NoSettings
    /\ alert_limit = alert_limit_sec(env)
    /\ \/ hw_pc = "read" /\ now = 0
       \/ hw_pc = "exited" /\ now = TimeoutSeconds

DistHardwareStep ==
    \/ HwRead
    \/ HwLoadFlag
    \/ HwLPush
    \/ HwLTrim
    \/ HwSend

NextDist ==
    \/ DistHardwareStep
    \/ MonitorStep
    \/ ReplayStep
    \/ ObserverStep

SpecDist == InitDist /\ [][NextDist]_vars

(***************************************************************************)
(* One iteration of the serial thread's read loop (serial.rs 83-160) on    *)
(* the line it has read, with what the iteration computes.  acc_buffer,    *)
(* sedentary_timer and last_second are locals of the thread, so the        *)
(* iteration is taken in one step here; HwRead .. HwSend above are the     *)
(* same iteration step by step, without the contents.                      *)
(***************************************************************************)
SerialLine(line) ==
    /\ hw_pc = "read"
    /\ serial_lines' = Append(serial_lines, line)
    /\ IF SerialParses(line)
       THEN LET reading == line.reading
                buffer == PushAcc(acc_buffer, reading.acc)
                smoothed_acc == SmoothedAcc(buffer)
                state == classify_state(reading.pir, smoothed_acc)
                changed == SecondChanged(last_second, reading.ts)
                timer == IF changed THEN TimerAfter(state, sedentary_timer)
                                    ELSE sedentary_timer
                output == ProcessedState("hw", hw_n + 1, state, timer,
                                         smoothed_acc,
                                         Alert(timer, alert_limit),
                                         reading.ts)
            IN  /\ last_data_time' = now
                /\ is_fallback_active' = FALSE
                /\ acc_buffer' = buffer
                /\ sedentary_timer' = timer
                /\ last_second' = IF changed THEN <<reading.ts>>
                                             ELSE last_second
                /\ hw_n' = hw_n + 1
                /\ IF redis_up
                   THEN /\ sensor_history' =
                              LTrim(LPush(sensor_history, output),
                                    0, HistoryLimit - 1)
                        /\ pushed' = Append(pushed, output)
                   ELSE UNCHANGED cache_vars
                /\ Send(output)
       ELSE UNCHANGED <<last_data_time, is_fallback_active, acc_buffer,
                        sedentary_timer, last_second, hw_n, cache_vars, tx>>
    /\ UNCHANGED <<now, redis_up, sedentary_log, hw_pc, hw_call_fallback,
                   mon_vars, flip_vars, replay_vars, obs_vars,
                   replay_cls_vars, config_vars, store_vars, replay2_vars>>

(***************************************************************************)
(* One iteration of replay_log_file's loop (replay.rs 52-121) on the next  *)
(* line of the log file, with what the iteration computes.                 *)
(***************************************************************************)
ReplayLogLine(line) ==
    /\ replay_pc = "run"
    /\ file_lines' = Append(file_lines, line)
    /\ IF ReplayParses(line)
       THEN LET reading == line.reading
                buffer == PushAcc(replay_acc_buffer, reading.acc)
                smoothed_acc == SmoothedAcc(buffer)
                state == replay_classify_state(reading.pir, smoothed_acc)
                changed == SecondChanged(replay_last_second, reading.ts)
                timer == IF changed
                         THEN TimerAfter(state, replay_sedentary_timer)
                         ELSE replay_sedentary_timer
                output == ProcessedState("file", replay_idx + 1, state,
                                         timer, smoothed_acc,
                                         Alert(timer, alert_limit),
                                         reading.ts)
            IN  /\ replay_acc_buffer' = buffer
                /\ replay_sedentary_timer' = timer
                /\ replay_last_second' = IF changed THEN <<reading.ts>>
                                                    ELSE replay_last_second
                /\ replay_idx' = replay_idx + 1
                /\ Send(output)
       ELSE UNCHANGED <<replay_acc_buffer, replay_sedentary_timer,
                        replay_last_second, replay_idx, tx>>
    /\ UNCHANGED <<liveness_vars, redis_up, cache_vars, sedentary_log,
                   hw_vars, mon_vars, flip_vars, replay_pc, obs_vars,
                   serial_cls_vars, config_vars, store_vars, replay2_vars>>

(***************************************************************************)
(* A second file replay.  Every GET /api/replay spawns a task of its own   *)
(* (main.rs start_replay), whatever else is running, and every call of     *)
(* replay_log_file declares its own acc_buffer, sedentary_timer and        *)
(* last_second.  Its messages carry src "file2" so that the two runs can   *)
(* be told apart on the channel.                                           *)
(***************************************************************************)
Replay2Start ==
    /\ replay2_pc = "off"
    /\ replay2_pc' = "run"
    /\ UNCHANGED <<liveness_vars, redis_up, cache_vars, sedentary_log, tx,
                   hw_vars, mon_vars, flip_vars, replay_vars, obs_vars,
                   serial_cls_vars, replay_cls_vars, config_vars, store_vars,
                   replay2_idx, replay2_acc_buffer, replay2_sedentary_timer,
                   replay2_last_second, file2_lines>>

\* (mutation) the second run counting on the first run's sedentary timer
Replay2LogLineSharedTimer(line) ==
    /\ replay2_pc = "run"
    /\ file2_lines' = Append(file2_lines, line)
    /\ IF ReplayParses(line)
       THEN LET reading == line.reading
                buffer == PushAcc(replay2_acc_buffer, reading.acc)
                smoothed_acc == SmoothedAcc(buffer)
                state == replay_classify_state(reading.pir, smoothed_acc)
                changed == SecondChanged(replay2_last_second, reading.ts)
                timer == IF changed
                         THEN TimerAfter(state, replay_sedentary_timer)
                         ELSE replay_sedentary_timer
                output == ProcessedState("file2", replay2_idx + 1, state,
                                         timer, smoothed_acc,
                                         Alert(timer, alert_limit),
                                         reading.ts)
            IN  /\ replay2_acc_buffer' = buffer
                /\ replay2_sedentary_timer' = timer
                /\ replay2_last_second' = IF changed THEN <<reading.ts>>
                                                     ELSE replay2_last_second
                /\ replay2_idx' = replay2_idx + 1
                /\ Send(output)
       ELSE UNCHANGED <<replay2_acc_buffer, replay2_sedentary_timer,
                        replay2_last_second, replay2_idx, tx>>
    /\ UNCHANGED <<liveness_vars, redis_up, cache_vars, sedentary_log,
                   hw_vars, mon_vars, flip_vars, replay_vars, replay2_pc,
                   obs_vars, serial_cls_vars, replay_cls_vars, config_vars,
                   store_vars>>

Replay2LogLine(line) ==
    /\ replay2_pc = "run"
    /\ file2_lines' = Append(file2_lines, line)
    /\ IF ReplayParses(line)
       THEN LET reading == line.reading
                buffer == PushAcc(replay2_acc_buffer, reading.acc)
                smoothed_acc == SmoothedAcc(buffer)
                state == replay_classify_state(reading.pir, smoothed_acc)
                changed == SecondChanged(replay2_last_second, reading.ts)
                timer == IF changed
                         THEN TimerAfter(state, replay2_sedentary_timer)
                         ELSE replay2_sedentary_timer
                output == ProcessedState("file2", replay2_idx + 1, state,
                                         timer, smoothed_acc,
                                         Alert(timer, alert_limit),
                                         reading.ts)
            IN  /\ replay2_acc_buffer' = buffer
                /\ replay2_sedentary_timer' = timer
                /\ replay2_last_second' = IF changed THEN <<reading.ts>>
                                                     ELSE replay2_last_second
                /\ replay2_idx' = replay2_idx + 1
                /\ Send(output)
       ELSE UNCHANGED <<replay2_acc_buffer, replay2_sedentary_timer,
                        replay2_last_second, replay2_idx, tx>>
    /\ UNCHANGED <<liveness_vars, redis_up, cache_vars, sedentary_log,
                   hw_vars, mon_vars, flip_vars, replay_vars, replay2_pc,
                   obs_vars, serial_cls_vars, replay_cls_vars, config_vars,
                   store_vars>>

(***************************************************************************)
(* Specification of the classifying sources alone: either the serial port  *)
(* opened and the hardware sends lines, or it did not and a file replay is *)
(* requested.  Each source reads up to MaxSamples lines.                   *)
(***************************************************************************)
SerialInputs == {Line("json", r) : r \in Readings} \cup GarbageLines
FileInputs ==
    {Line(k, r) : k \in {"json", "prefixed"}, r \in Readings}
        \cup GarbageLines

InitClassify ==
    /\ InitState
    /\ now = 0
    /\ redis_up = TRUE
    /\ env = NoSettings
    /\ alert_limit = alert_limit_sec(env)
    /\ hw_pc \in {"read", "exited"}
    /\ sedentary_log = <<>>

SerialClassifyStep ==
    /\ Len(serial_lines) < MaxSamples
    /\ \E line \in SerialInputs : SerialLine(line)

ReplayClassifyStep ==
    \/ hw_pc = "exited" /\ ReplayStart
    \/ /\ Len(file_lines) < MaxSamples
       /\ \E line \in FileInputs : ReplayLogLine(line)

NextClassify == SerialClassifyStep \/ ReplayClassifyStep

SpecClassify == InitClassify /\ [][NextClassify]_vars

(***************************************************************************)
(* The db worker (db_worker.rs): a receiver of the broadcast channel that  *)
(* writes every message it receives to sedentary_log.  Like any receiver   *)
(* it gets Err(Lagged) when its next message was overwritten, which ends   *)
(* its while-let loop.  An INSERT that fails is logged and skipped.        *)
(***************************************************************************)
\* (mutation) a worker that writes only what is not a backfill record
DbWorkerHandleFreshOnly(inserted) ==
    /\ db_pc = "run"
    /\ db_rx < Len(tx)
    /\ IF Len(tx) - db_rx > ChannelCapacity
       THEN /\ db_pc' = "ended"
            /\ UNCHANGED <<db_rx, sedentary_log, row_data>>
       ELSE LET data == tx[db_rx + 1]
                id == Len(sedentary_log) + 1
            IN  /\ db_rx' = db_rx + 1
                /\ UNCHANGED db_pc
                /\ IF inserted /\ ~IsDb(data)
                   THEN /\ sedentary_log' = Append(sedentary_log, id)
                        /\ row_data' =
                             Append(row_data,
                                    Row(data.state, TimerAsI32(data.timer),
                                        data.val, now, data))
                   ELSE UNCHANGED <<sedentary_log, row_data>>
    /\ UNCHANGED <<liveness_vars, redis_up, cache_vars, tx, hw_vars,
                   mon_vars, flip_vars, replay_vars, obs_vars,
                   serial_cls_vars, replay_cls_vars, config_vars,
                   replay2_vars>>

\* one iteration of the while-let loop; inserted: the INSERT returned Ok
DbWorkerHandle(inserted) ==
    /\ db_pc = "run"
    /\ db_rx < Len(tx)
    /\ IF Len(tx) - db_rx > ChannelCapacity
       THEN /\ db_pc' = "ended"
            /\ UNCHANGED <<db_rx, sedentary_log, row_data>>
       ELSE LET data == tx[db_rx + 1]
                id == Len(sedentary_log) + 1
            IN  /\ db_rx' = db_rx + 1
                /\ UNCHANGED db_pc
                /\ IF inserted
                   THEN /\ sedentary_log' = Append(sedentary_log, id)
                        /\ row_data' =
                             Append(row_data,
                                    Row(data.state, TimerAsI32(data.timer),
                                        data.val, now, data))
                   ELSE UNCHANGED <<sedentary_log, row_data>>
    /\ UNCHANGED <<liveness_vars, redis_up, cache_vars, tx, hw_vars,
                   mon_vars, flip_vars, replay_vars, obs_vars,
                   serial_cls_vars, replay_cls_vars, config_vars,
                   replay2_vars>>

DbWorkerRecv == \E inserted \in BOOLEAN : DbWorkerHandle(inserted)

(***************************************************************************)
(* The server is stopped and started again (main.rs): the channel, the     *)
(* FallbackState, the tasks and their locals are new, ALERT_LIMIT_SECONDS  *)
(* is read from the new environment; the database and Redis keep what they *)
(* hold.  The serial port does not open this time.                         *)
(***************************************************************************)
Restart ==
    /\ hw_pc = "read"
    /\ hw_pc' = "exited"
    /\ \E limit \in 1..MaxAlertLimit : env' = WithAlertLimit(limit)
    /\ alert_limit' = alert_limit_sec(env')
    /\ last_data_time' = now
    /\ is_fallback_active' = FALSE
    /\ tx' = <<>>
    /\ hw_n' = 0
    /\ hw_call_fallback' = FALSE
    /\ mon_pc' = "tick"
    /\ seconds_idle' = 0
    /\ redis_conn' = FALSE
    /\ rows_chronological' = <<>>
    /\ bf_idx' = 0
    /\ bf_start' = 0
    /\ bf_table' = <<>>
    /\ bf_outcome' = "none"
    /\ bf_flip_at' = -1
    /\ bf_flip_pc' = "none"
    /\ replay_pc' = "off"
    /\ replay_idx' = 0
    /\ obs_pc' = [o \in Observers |-> "idle"]
    /\ obs_history' = [o \in Observers |-> <<>>]
    /\ rx' = [o \in Observers |-> 0]
    /\ obs_start' = [o \in Observers |-> 0]
    /\ obs_out' = [o \in Observers |-> <<>>]
    /\ acc_buffer' = <<>>
    /\ sedentary_timer' = 0
    /\ last_second' = <<>>
    /\ serial_lines' = <<>>
    /\ replay_acc_buffer' = <<>>
    /\ replay_sedentary_timer' = 0
    /\ replay_last_second' = <<>>
    /\ file_lines' = <<>>
    /\ replay2_pc' = "off"
    /\ replay2_idx' = 0
    /\ replay2_acc_buffer' = <<>>
    /\ replay2_sedentary_timer' = 0
    /\ replay2_last_second' = <<>>
    /\ file2_lines' = <<>>
    /\ db_rx' = 0
    /\ db_pc' = "run"
    /\ UNCHANGED <<now, redis_up, cache_vars, sedentary_log, row_data>>

(***************************************************************************)
(* Specification of the stored states: the serial thread publishes         *)
(* sedentary readings, the db worker stores what is published, the server  *)
(* is restarted without the sensor, and the monitor's backfill (and a file *)
(* replay) publish in the new process.  The clock is followed from the     *)
(* restart on.  Each reading of a source begins a new second (readings     *)
(* within a second are SpecClassify's), and the table holds at most        *)
(* MaxRows rows.                                                           *)
(***************************************************************************)
StoreInputs ==
    {Line("json", RawReading(ts, 0, thresh_fidget)) : ts \in 1..MaxLabel}

InitStore ==
    /\ InitState
    /\ now = 0
    /\ redis_up = TRUE
    /\ \E limit \in 1..MaxAlertLimit : env = WithAlertLimit(limit)
    /\ alert_limit = alert_limit_sec(env)
    /\ hw_pc = "read"
    /\ sedentary_log = <<>>

NextStore ==
    \/ /\ Len(serial_lines) < MaxReadings
       /\ \E line \in StoreInputs :
              /\ line.reading.ts = Len(serial_lines) + 1
              /\ SerialLine(line)
    \/ Len(sedentary_log) < MaxRows /\ DbWorkerRecv
    \/ Restart
    \/ hw_pc = "exited" /\ TimePasses
    \/ MonitorStep
    \/ hw_pc = "exited" /\ ReplayStart
    \/ /\ Len(file_lines) < MaxLines
       /\ \E line \in StoreInputs :
              /\ line.reading.ts = Len(file_lines) + 1
              /\ ReplayLogLine(line)

SpecStore == InitStore /\ [][NextStore]_vars

(***************************************************************************)
(* Specification of the sources reading good and bad lines while the clock *)
(* runs and the monitor watches: the database is empty, so a backfill      *)
(* returns at once ("No historical data available") and leaves the flag    *)
(* set until the next reading.  Either the serial port opened, or it did   *)
(* not and a file replay is requested.                                     *)
(***************************************************************************)
SedentaryReadings == {RawReading(ts, 0, thresh_fidget) : ts \in 1..MaxLabel}
PortLines ==
    {Line(kind, r) : kind \in {"json", "prefixed"}, r \in SedentaryReadings}
        \cup GarbageLines
LogLines == {Line("prefixed", r) : r \in SedentaryReadings} \cup GarbageLines

InitLines ==
    /\ InitState
    /\ now = 0
    /\ redis_up = TRUE
    /\ env = NoSettings
    /\ alert_limit = alert_limit_sec(env)
    /\ hw_pc \in {"read", "exited"}
    /\ sedentary_log = <<>>

NextLines ==
    \/ TimePasses
    \/ /\ Len(serial_lines) < MaxSamples
       /\ \E line \in PortLines : SerialLine(line)
    \/ hw_pc = "exited" /\ ReplayStart
    \/ /\ Len(file_lines) < MaxSamples
       /\ \E line \in LogLines : ReplayLogLine(line)
    \/ MonitorTick
    \/ MonitorCheck
    \/ MonitorEnter
    \/ BackfillFetch

SpecLines == InitLines /\ [][NextLines]_vars

(***************************************************************************)
(* Specification of the start of the process under every environment: each *)
(* setting unset, set to text that does not parse, or set to a number (the *)
(* alert limit to any limit of the model, the others to the value the      *)
(* model runs them at).  main spawns the serial thread and the monitor     *)
(* (main.rs 54-84); nothing on the way reads a setting and stops.          *)
(***************************************************************************)
SettingValues(s) ==
    {Unset, Invalid} \cup
        (IF s = "ALERT_LIMIT_SECONDS"
         THEN {Number(limit) : limit \in 1..MaxAlertLimit}
         ELSE {Number(1)})

Environments == {e \in [Settings -> {Unset, Invalid} \cup
                                      {Number(v) : v \in 1..MaxAlertLimit}] :
                    \A s \in Settings : e[s] \in SettingValues(s)}

InitConfig ==
    /\ InitState
    /\ now = 0
    /\ hw_pc = "open"
    /\ redis_up = TRUE
    /\ env \in Environments
    /\ alert_limit = alert_limit_sec(env)
    /\ sedentary_log = <<>>

NextConfig ==
    \/ HwOpen
    \/ /\ Len(serial_lines) < MaxLines
       /\ \E line \in StoreInputs :
              /\ line.reading.ts = Len(serial_lines) + 1
              /\ SerialLine(line)
    \/ MonitorTick
    \/ MonitorCheck

SpecConfig == InitConfig /\ [][NextConfig]_vars

(***************************************************************************)
(* Specification of outage and reconnect cycles.  The port is open and has *)
(* been silent for the timeout since startup; the clock is followed for a  *)
(* second timeout, so that the hardware can come back and fall silent      *)
(* again.  The cache is unreachable (its writes are the distribution's     *)
(* matter).  The monitor's interval keeps ticking: weak fairness on the    *)
(* monitor task.                                                           *)
(***************************************************************************)
CycleEnd == 2 * TimeoutSeconds

InitCycle ==
    /\ InitState
    /\ now = TimeoutSeconds
    /\ hw_pc = "read"
    /\ redis_up = FALSE
    /\ env = NoSettings
    /\ alert_limit = alert_limit_sec(env)

CycleHardwareStep ==
    \/ HwRead
    \/ HwLoadFlag
    \/ HwClearFlag
    \/ HwLogReconnected
    \/ HwLPush
    \/ HwSend

CycleMonitorStep ==
    \/ MonitorTick
    \/ MonitorCheck
    \/ MonitorEnter
    \/ BackfillFetch
    \/ BackfillCheck
    \/ BackfillSend

NextCycle ==
    \/ ClockTick(CycleEnd)
    \/ CycleHardwareStep
    \/ CycleMonitorStep

SpecCycle == InitCycle /\ [][NextCycle]_vars

FairCycle == SpecCycle /\ WF_vars(CycleMonitorStep)

(***************************************************************************)
(* Specification of failing collaborators: the Redis server stops and      *)
(* starts answering at any moment, an INSERT of the db worker fails or     *)
(* not.  The port is open and has been silent for the timeout since        *)
(* startup, the table holds a batch of rows and at most MaxRows.           *)
(***************************************************************************)
\* the Redis server goes away or comes back
RedisToggle ==
    /\ redis_up' = ~redis_up
    /\ UNCHANGED <<liveness_vars, cache_vars, sedentary_log, content_vars,
                   tx, hw_vars, mon_vars, flip_vars, replay_vars, obs_vars>>

\* rows in the table when the server starts
RowsAtStart == Min(BatchSize, MaxRows - 1)

InitFailures ==
    /\ InitState
    /\ now = TimeoutSeconds
    /\ hw_pc = "read"
    /\ redis_up \in BOOLEAN
    /\ env = NoSettings
    /\ alert_limit = alert_limit_sec(env)
    /\ Len(sedentary_log) = RowsAtStart

NextFailures ==
    \/ RedisToggle
    \/ /\ Len(serial_lines) < MaxLines
       /\ \E line \in StoreInputs :
              /\ line.reading.ts = Len(serial_lines) + 1
              /\ SerialLine(line)
    \/ MonitorStep
    \/ Len(sedentary_log) < MaxRows /\ DbWorkerRecv

SpecFailures == InitFailures /\ [][NextFailures]_vars

(***************************************************************************)
(* Specification of the sources running side by side: the serial thread    *)
(* and two file replays each read lines of their own, in any interleaving, *)
(* MaxSamples lines in all, while the monitor, which finds the hardware    *)
(* idle for the timeout at the start, backfills the one row of the table.  *)
(***************************************************************************)
\* the lines a source may read next: a still or a moving reading in the
\* second after its last line, or a still one in the same second
SideBySideInputs(lines) ==
    {Line("json", RawReading(Len(lines) + 1, 0, acc)) : acc \in AccValues}
        \cup IF lines = <<>> THEN {}
             ELSE {Line("json", RawReading(Len(lines), 0, thresh_fidget))}

LinesRead == Len(serial_lines) + Len(file_lines) + Len(file2_lines)

InitSideBySide ==
    /\ InitState
    /\ now = TimeoutSeconds
    /\ hw_pc = "read"
    /\ redis_up = TRUE
    /\ env = NoSettings
    /\ alert_limit = alert_limit_sec(env)
    /\ Len(sedentary_log) = 1

SideBySideSerialStep ==
    /\ LinesRead < MaxSamples
    /\ \E line \in SideBySideInputs(serial_lines) : SerialLine(line)

SideBySideReplayStep ==
    \/ ReplayStart
    \/ /\ LinesRead < MaxSamples
       /\ \E line \in SideBySideInputs(file_lines) : ReplayLogLine(line)

SideBySideReplay2Step ==
    \/ Replay2Start
    \/ /\ LinesRead < MaxSamples
       /\ \E line \in SideBySideInputs(file2_lines) : Replay2LogLine(line)

NextSideBySide ==
    \/ SideBySideSerialStep
    \/ SideBySideReplayStep
    \/ SideBySideReplay2Step
    \/ MonitorStep

SpecSideBySide == InitSideBySide /\ [][NextSideBySide]_vars

(***************************************************************************)
(* Specification of the transition between backfill and hardware: the     *)
(* whole of Next, the table holding MaxRows rows when the server starts,   *)
(* more than one batch replays.                                            *)
(***************************************************************************)
InitBoundary ==
    /\ InitState
    /\ now = 0
    /\ hw_pc = "open"
    /\ redis_up \in BOOLEAN
    /\ env = NoSettings
    /\ alert_limit = alert_limit_sec(env)
    /\ Len(sedentary_log) = MaxRows

SpecBoundary == InitBoundary /\ [][Next]_vars

(***************************************************************************)
(* Specification of the storage writer behind a producer: the serial       *)
(* thread publishes up to MaxSamples states, one more than the channel     *)
(* holds, and the db worker receives them at its own pace.  The worker's   *)
(* task is scheduled whenever a message waits for it.                      *)
(***************************************************************************)
InitWriter ==
    /\ InitState
    /\ now = 0
    /\ hw_pc = "read"
    /\ redis_up = TRUE
    /\ env = NoSettings
    /\ alert_limit = alert_limit_sec(env)
    /\ sedentary_log = <<>>

WriterProducerStep ==
    /\ Len(serial_lines) < MaxSamples
    /\ \E line \in SideBySideInputs(serial_lines) : SerialLine(line)

NextWriter == WriterProducerStep \/ DbWorkerRecv

SpecWriter == InitWriter /\ [][NextWriter]_vars

FairWriter == SpecWriter /\ WF_vars(DbWorkerRecv)

(***************************************************************************)
(* Specification of the write-back: the table holds the rows of an earlier *)
(* run and the hardware has been idle for the timeout; the monitor         *)
(* backfills, the serial thread may read a line, the clock runs for a      *)
(* second timeout, and the db worker writes what is published.  The        *)
(* database accepts every INSERT and the producers never get the channel's *)
(* capacity ahead of the worker; Redis is down.                            *)
(***************************************************************************)
WorkerKeepsUp == Len(tx) - db_rx < ChannelCapacity

InitWriteBack ==
    /\ InitState
    /\ now = TimeoutSeconds
    /\ hw_pc = "read"
    /\ redis_up = FALSE
    /\ env = NoSettings
    /\ alert_limit = alert_limit_sec(env)
    /\ Len(sedentary_log) = RowsAtStart

WriteBackSerialStep ==
    /\ Len(serial_lines) < MaxLines
    /\ WorkerKeepsUp
    /\ \E line \in StoreInputs :
           /\ line.reading.ts = Len(serial_lines) + 1
           /\ SerialLine(line)

WriteBackMonitorStep ==
    /\ mon_pc = "bf_send" => WorkerKeepsUp
    /\ CycleMonitorStep

WriteBackWorkerStep ==
    /\ Len(sedentary_log) < MaxRows + BatchSize
    /\ DbWorkerHandle(TRUE)

NextWriteBack ==
    \/ ClockTick(CycleEnd)
    \/ WriteBackSerialStep
    \/ WriteBackMonitorStep
    \/ WriteBackWorkerStep

SpecWriteBack == InitWriteBack /\ [][NextWriteBack]_vars

(***************************************************************************)
(* Specification of the sources' start: the serial port is opened or not,  *)
(* a requested file replay opens its file or not; the monitor, the clock   *)
(* and one SSE client run beside them.  A source that did open reads      *)
(* while the channel has carried fewer than ChannelCapacity messages.  The *)
(* monitor's interval and the clock never stop: weak fairness on both.     *)
(***************************************************************************)
InitSources ==
    /\ InitState
    /\ now = 0
    /\ hw_pc = "open"
    /\ redis_up = TRUE
    /\ env = NoSettings
    /\ alert_limit = alert_limit_sec(env)
    /\ Len(sedentary_log) = 1

SourcesClientStep ==
    \/ ObsFetchHistory("o1")
    \/ ObsYieldHistory("o1")
    \/ ObsSubscribe("o1")
    \/ ObsRecv("o1")

NextSources ==
    \/ TimePasses
    \/ HwOpen
    \/ /\ Len(serial_lines) < MaxLines
       /\ Len(tx) < ChannelCapacity
       /\ \E line \in StoreInputs :
              /\ line.reading.ts = Len(serial_lines) + 1
              /\ SerialLine(line)
    \/ ReplayStart
    \/ ReplayOpenFails
    \/ Len(tx) < ChannelCapacity /\ ReplayLine
    \/ MonitorStep
    \/ SourcesClientStep

SpecSources == InitSources /\ [][NextSources]_vars

FairSources ==
    SpecSources /\ WF_vars(TimePasses) /\ WF_vars(MonitorStep)

(***************************************************************************)
(* Properties                                                              *)
(***************************************************************************)
IsPrefix(a, b) == Len(a) <= Len(b) /\ a = SubSeq(b, 1, Len(a))

\* The most recent BatchSize rows of a table, oldest first.
MostRecentRows(table) ==
    SubSeq(table, Len(table) - Min(BatchSize, Len(table)) + 1, Len(table))

\* C1: a monitor tick measures the time since the last recorded reading;
\* when that tick finds the measured idle time at least the timeout and the
\* flag false, it goes on to enter_fallback (the flag cannot turn true in
\* between, only the monitor sets it), which sets the flag and starts
\* backfill_from_database.
C1_FallbackEntry ==
    [][ /\ (mon_pc = "tick" /\ mon_pc' # "tick")
            => (mon_pc' = "check" /\ seconds_idle' = now - last_data_time)
        /\ (mon_pc = "check" /\ ~is_fallback_active) => ~is_fallback_active'
        /\ (mon_pc = "check" /\ mon_pc' # "check"
              /\ seconds_idle >= TimeoutSeconds /\ ~is_fallback_active)
            => mon_pc' = "enter"
        /\ (mon_pc = "enter" /\ mon_pc' # "enter")
            => (is_fallback_active' /\ mon_pc' = "backfill"
                  /\ bf_outcome' = "running")
      ]_vars

\* C1 witness: a backfill has just been started by a tick that measured
\* exactly the timeout.
C1_Witness ==
    /\ mon_pc = "backfill"
    /\ is_fallback_active
    /\ now - last_data_time = TimeoutSeconds

\* C2: when record_data_received was called with the flag true, the flag is
\* false at the moment the call returns.
C2_FallbackExit ==
    [][ (hw_pc # "rdr_ret" /\ hw_pc' = "rdr_ret" /\ hw_call_fallback)
            => ~is_fallback_active' ]_vars

\* C3 as claimed: once the flag was cleared during a backfill, the batch
\* publishes no further record.
C3_NoRecordAfterFlip ==
    bf_flip_at # -1 => Len(BatchSent) = bf_flip_at

\* C3 amended: once the flag was cleared during a backfill, no iteration
\* whose flag check comes after that is published: the batch publishes at
\* most one further record, and only the one whose check had already passed
\* when the flag was cleared; the loop then stops with the later rows unsent.
C3_AtMostOneAfterFlip ==
    bf_flip_at # -1 =>
        LET sent == Len(BatchSent)
        IN  /\ sent - bf_flip_at =
                  (IF bf_flip_pc = "bf_send" /\ mon_pc # "bf_send" THEN 1 ELSE 0)
            /\ ~is_fallback_active
            /\ bf_outcome = "complete" => sent = Len(rows_chronological)
            /\ bf_outcome = "stopped" => sent < Len(rows_chronological)

\* C3 witness: the flag was cleared after the oldest of two rows was sent
\* and the replay stopped without sending the newest.
C3_Witness ==
    /\ bf_outcome = "stopped"
    /\ bf_flip_at = 1
    /\ Len(BatchSent) = 1
    /\ Len(rows_chronological) = 2

\* C4: the rows a backfill has published are, in this order, the first of
\* the most recent BatchSize rows of the table taken oldest first; a replay
\* that ran to its end published all of them, each once, and nothing else.
C4_BackfillOrder ==
    bf_outcome # "none" =>
        LET sent == BatchRows
        IN  /\ (bf_outcome \in {"stopped", "complete"}
                   \/ (bf_outcome = "running" /\ mon_pc # "backfill"))
                  => IsPrefix(sent, MostRecentRows(bf_table))
            /\ bf_outcome = "complete" => sent = MostRecentRows(bf_table)
            /\ (bf_outcome \in {"error", "empty"} \/ mon_pc = "backfill")
                  => sent = <<>>

\* C4 witness: a replay of two rows out of a table of three ran to its end.
C4_Witness ==
    /\ bf_outcome = "complete"
    /\ Len(bf_table) > BatchSize
    /\ Len(BatchRows) = BatchSize
    /\ BatchSize >= 2

IsHistoryEvent(e) == e.kind = "history"
IsLiveEvent(e) == e.kind = "live"
HistoryEvents(o) == SelectSeq(obs_out[o], IsHistoryEvent)
LiveEvents(o) == SelectSeq(obs_out[o], IsLiveEvent)
MsgsOf(events) == [i \in 1..Len(events) |-> events[i].msg]

\* a is b[k+1..k+Len(a)] for some k
IsSegment(a, b) ==
    \E k \in 0..(Len(b) - Len(a)) : a = SubSeq(b, k + 1, k + Len(a))

\* a can be obtained from b by deleting elements
RECURSIVE IsSubsequence(_, _)
IsSubsequence(a, b) ==
    IF a = <<>> THEN TRUE
    ELSE IF b = <<>> THEN FALSE
    ELSE IF Head(a) = Head(b) THEN IsSubsequence(Tail(a), Tail(b))
    ELSE IsSubsequence(a, Tail(b))

\* C5: what an observer is sent is first history, then live messages, never
\* a history message after a live one; the history is at most HistoryLimit
\* messages, a run of consecutive LPUSHes in the order they were pushed
\* (oldest first); the observer is subscribed only once all of it was sent.
C5_SubscribeOrdering ==
    \A o \in Observers :
        LET out == obs_out[o]
            h == Len(HistoryEvents(o))
        IN  /\ \A i \in 1..Len(out) : (out[i].kind = "history") <=> (i <= h)
            /\ h + Len(obs_history[o]) <= HistoryLimit
            /\ IsSegment(MsgsOf(HistoryEvents(o)) \o obs_history[o], pushed)
            /\ obs_pc[o] \in {"live", "ended"} => obs_history[o] = <<>>
            /\ obs_pc[o] \in {"idle", "history"} => LiveEvents(o) = <<>>

\* C5 witness: an observer was sent two history messages and then a live one
\* while the cache had seen more pushes than it keeps.
C5_Witness ==
    \E o \in Observers :
        /\ Len(HistoryEvents(o)) = HistoryLimit
        /\ HistoryLimit >= 2
        /\ Len(LiveEvents(o)) >= 1

\* C6: every message sent on the channel whose publish is complete was also
\* LPUSHed to the history cache.
C6_PublishedIsCached ==
    \A i \in 1..Len(tx) :
        \/ \E j \in 1..Len(pushed) : pushed[j] = tx[i]
        \/ /\ IsDb(tx[i])
           /\ mon_pc = "bf_lpush"
           /\ tx[i] = BatchSent[Len(BatchSent)]

\* C7: whenever no producer is in the middle of a publish, the history cache
\* holds the min(HistoryLimit, number pushed) most recently pushed messages,
\* newest first.
C7_HistoryBound ==
    (hw_pc \notin {"ltrim", "send"} /\ mon_pc \notin {"bf_lpush", "bf_ltrim"})
        => sensor_history =
             Reverse(SubSeq(pushed,
                            Len(pushed) - Min(HistoryLimit, Len(pushed)) + 1,
                            Len(pushed)))

\* C8: a producer that has reached its send can always complete it, however
\* far behind the observers are; and the live messages an observer has been
\* sent are exactly the channel's messages from its subscription on, one by
\* one, whatever the other observers have or have not read.
C8_NonBlockingFanOut ==
    /\ hw_pc = "send" => ENABLED HwSend
    /\ mon_pc = "bf_send" => ENABLED BackfillSend
    /\ (replay_pc = "run" /\ replay_idx < MaxLines) => ENABLED ReplayLine
    /\ \A o \in Observers :
          LET live == MsgsOf(LiveEvents(o))
          IN  /\ live = SubSeq(tx, obs_start[o] + 1, obs_start[o] + Len(live))
              /\ obs_pc[o] = "live" => rx[o] = obs_start[o] + Len(live)

\* C8 witness: a send has completed although one observer, which has read
\* nothing since it subscribed, already had a full channel of unread
\* messages, while another observer has been sent two live messages.
C8_Witness ==
    \E o, p \in Observers :
        /\ o # p
        /\ obs_pc[o] = "live"
        /\ rx[o] = obs_start[o]
        /\ Lagged(o)
        /\ obs_pc[p] = "live"
        /\ Len(LiveEvents(p)) >= 2

\* C9: the stream of an observer does not end because it lagged.
C9_LaggedStreamContinues ==
    \A o \in Observers : obs_pc[o] # "ended"

\* C10: on the channel the messages of one source are in generation order,
\* and the live messages an observer has been sent are a subsequence of the
\* channel's messages, in the channel's order.
C10_OrderPreserved ==
    /\ \A i, j \in 1..Len(tx) :
          (i < j /\ tx[i].src = tx[j].src) => tx[i].n < tx[j].n
    /\ \A o \in Observers : IsSubsequence(MsgsOf(LiveEvents(o)), tx)

\* C10 witness: an observer that subscribed after the first message was sent
\* both readings of the hardware, which were published in generation order.
C10_Witness ==
    \E o \in Observers :
        /\ obs_start[o] >= 1
        /\ Len(LiveEvents(o)) >= 2
        /\ Len(SelectSeq(tx, IsHw)) >= 2

\* The readings among the lines a source has read, in order.
SerialReadings(lines) ==
    [i \in 1..Len(SelectSeq(lines, SerialParses)) |->
        SelectSeq(lines, SerialParses)[i].reading]
FileReadings(lines) ==
    [i \in 1..Len(SelectSeq(lines, ReplayParses)) |->
        SelectSeq(lines, ReplayParses)[i].reading]

\* The last two readings of a sequence of readings carry the same label.
SameSecondAsPrevious(readings) ==
    /\ Len(readings) >= 2
    /\ readings[Len(readings)].ts = readings[Len(readings) - 1].ts

\* C11: in either classifier, a step that processes a reading whose second
\* label equals the label of the previous reading leaves the sedentary timer
\* as it was, whatever state the reading is classified as; and the timer
\* changes only in a step that processes a reading whose label differs from
\* the previous reading's (or that is the first reading).
C11_SameSecondIdempotent ==
    [][/\ SameSecondAsPrevious(SerialReadings(serial_lines'))
          => sedentary_timer' = sedentary_timer
       /\ SameSecondAsPrevious(FileReadings(file_lines'))
          => replay_sedentary_timer' = replay_sedentary_timer
       /\ sedentary_timer' # sedentary_timer
          => /\ Len(SerialReadings(serial_lines')) =
                   Len(SerialReadings(serial_lines)) + 1
             /\ ~SameSecondAsPrevious(SerialReadings(serial_lines'))
       /\ replay_sedentary_timer' # replay_sedentary_timer
          => /\ Len(FileReadings(file_lines')) =
                   Len(FileReadings(file_lines)) + 1
             /\ ~SameSecondAsPrevious(FileReadings(file_lines'))]_vars

\* C11 witness: the hardware classifier has published an ACTIVE state with a
\* timer above 0 for a reading in the same second as the reading before it.
C11_Witness ==
    \E i \in 1..(Len(tx) - 1) :
        /\ IsHw(tx[i]) /\ IsHw(tx[i + 1])
        /\ tx[i + 1].timestamp = tx[i].timestamp
        /\ tx[i + 1].state = "ACTIVE"
        /\ tx[i + 1].timer > 0
        /\ SameSecondAsPrevious(SerialReadings(serial_lines))

\* The last reading of a sequence carries a label that differs from the
\* label of the reading before it.
NewSecond(readings) ==
    /\ Len(readings) >= 2
    /\ readings[Len(readings)].ts # readings[Len(readings) - 1].ts

\* The timer rule between the timer before a reading and the state and
\* timer published for it.
TimerRule(before, out, after) ==
    /\ out.state \in {"ACTIVE", "FIDGET", "SEDENTARY"}
    /\ out.state = "ACTIVE" => after = 0
    /\ out.state = "FIDGET" => after = before
    /\ out.state = "SEDENTARY" => after = before + 1
    /\ out.timer = after

\* C12: in either classifier, a step that processes a reading whose second
\* label differs from the previous reading's label sets the timer to 0 when
\* the reading is classified ACTIVE, leaves it when FIDGET, adds exactly 1
\* when SEDENTARY, and the state published for the reading carries the
\* timer after this update.  (The first reading of an instance, which has
\* no previous reading, is the subject of C14.)
C12_TimerRule ==
    [][/\ (/\ Len(SerialReadings(serial_lines')) =
                Len(SerialReadings(serial_lines)) + 1
           /\ NewSecond(SerialReadings(serial_lines')))
          => /\ Len(tx') = Len(tx) + 1
             /\ IsHw(tx'[Len(tx')])
             /\ TimerRule(sedentary_timer, tx'[Len(tx')], sedentary_timer')
       /\ (/\ Len(FileReadings(file_lines')) =
                Len(FileReadings(file_lines)) + 1
           /\ NewSecond(FileReadings(file_lines')))
          => /\ Len(tx') = Len(tx) + 1
             /\ IsFile(tx'[Len(tx')])
             /\ TimerRule(replay_sedentary_timer, tx'[Len(tx')],
                          replay_sedentary_timer')]_vars

\* C12 witness: the file classifier has published, for three readings in
\* three successive new seconds, SEDENTARY with a timer raised by 1, FIDGET
\* with the same timer, and ACTIVE with timer 0.
C12_Witness ==
    /\ Len(tx) = 3
    /\ \A i \in 1..3 : IsFile(tx[i])
    /\ tx[1].timestamp # tx[2].timestamp /\ tx[2].timestamp # tx[3].timestamp
    /\ tx[1].state = "SEDENTARY" /\ tx[1].timer >= 1
    /\ tx[2].state = "FIDGET" /\ tx[2].timer = tx[1].timer
    /\ tx[3].state = "ACTIVE" /\ tx[3].timer = 0

\* The states a source has published, in order.
PublishedBy(src) == SelectSeq(tx, LAMBDA m : m.src = src)

\* A second of a classifier's input is a maximal run of successive readings
\* with the same label; it begins at the published state i when that state's
\* label differs from the one before, and it is classified as the reading
\* that begins it (the timer rule looks at no other reading of the second).
BeginsSecond(outs, i) == i = 1 \/ outs[i].timestamp # outs[i - 1].timestamp

SecondsClassified(outs, state) ==
    {i \in 1..Len(outs) : BeginsSecond(outs, i) /\ outs[i].state = state}

LastActiveSecond(outs) ==
    IF SecondsClassified(outs, "ACTIVE") = {} THEN 0
    ELSE CHOOSE i \in SecondsClassified(outs, "ACTIVE") :
            \A j \in SecondsClassified(outs, "ACTIVE") : j <= i

\* The number of seconds classified SEDENTARY since the last second
\* classified ACTIVE.
SedentarySecondsSinceActive(outs) ==
    Cardinality({i \in SecondsClassified(outs, "SEDENTARY") :
                    i > LastActiveSecond(outs)})

TimerCountsSedentarySeconds(outs, timer) ==
    /\ \A k \in 1..Len(outs) :
          outs[k].timer = SedentarySecondsSinceActive(SubSeq(outs, 1, k))
    /\ timer = SedentarySecondsSinceActive(outs)

FirstTimers(outs) ==
    /\ (Len(outs) >= 1 /\ outs[1].state = "SEDENTARY")
          => outs[1].timer = 0
    /\ (/\ Len(outs) >= 2
        /\ outs[1].state = "SEDENTARY"
        /\ outs[2].state = "SEDENTARY"
        /\ outs[2].timestamp # outs[1].timestamp)
          => /\ outs[2].timer = 1
             /\ alert_limit > 1 => ~outs[1].alert /\ ~outs[2].alert

\* C14: for a fresh classifier instance (hardware or file replay), the first
\* reading, if classified SEDENTARY, is published with timer 0, and the
\* timer first becomes 1 on the next SEDENTARY reading with a new second
\* label.
C14_FirstReadingTimer ==
    /\ FirstTimers(PublishedBy("hw"))
    /\ FirstTimers(PublishedBy("file"))

\* The state rule of the specification, on motionDetected and the smoothed
\* acceleration num/den.
StateRule(motion, smoothed) ==
    IF motion \/ smoothed.num > thresh_active * smoothed.den THEN "ACTIVE"
    ELSE IF smoothed.num > thresh_fidget * smoothed.den THEN "FIDGET"
    ELSE "SEDENTARY"

\* Every state of outs is the state rule's for its reading and its value.
FollowsStateRule(outs, readings) ==
    /\ Len(outs) = Len(readings)
    /\ \A i \in 1..Len(outs) :
          outs[i].state = StateRule(readings[i].pir = 1, outs[i].val)

\* The smoothed values a full or filling window can yield.
RECURSIVE Buffers(_)
Buffers(n) ==
    IF n = 0 THEN {<<>>}
    ELSE Buffers(n - 1) \cup
         {Append(b, a) : b \in {c \in Buffers(n - 1) : Len(c) = n - 1},
                         a \in AccValues}
SmoothedValues == {SmoothedAcc(b) : b \in Buffers(SMOOTHING_WINDOW)}

\* C15: every published state of a classifier is ACTIVE if its reading has
\* motion detected or the smoothed acceleration published with it is
\* strictly above the active threshold, otherwise FIDGET if that value is
\* strictly above the fidget threshold, otherwise SEDENTARY; and the serial
\* and the replay classify_state agree on every input.
C15_StateRule ==
    /\ FollowsStateRule(PublishedBy("hw"), SerialReadings(serial_lines))
    /\ FollowsStateRule(PublishedBy("file"), FileReadings(file_lines))
    /\ \A pir \in {0, 1}, v \in SmoothedValues :
          classify_state(pir, v) = replay_classify_state(pir, v)

\* C15 witness: the hardware classifier has published SEDENTARY for a value
\* equal to the fidget threshold, FIDGET for a value equal to the active
\* threshold, and ACTIVE for a reading with motion whose value is not above
\* the active threshold.
C15_Witness ==
    LET hw == PublishedBy("hw")
        readings == SerialReadings(serial_lines)
    IN  /\ Len(hw) = 3
        /\ hw[1].state = "SEDENTARY"
        /\ hw[1].val.num = thresh_fidget * hw[1].val.den
        /\ hw[2].state = "FIDGET"
        /\ hw[2].val.num = thresh_active * hw[2].val.den
        /\ hw[3].state = "ACTIVE"
        /\ readings[3].pir = 1
        /\ hw[3].val.num <= thresh_active * hw[3].val.den

\* The last min(k, SMOOTHING_WINDOW) acceleration magnitudes of the first k
\* readings, in arrival order.
LastMagnitudes(readings, k) ==
    [i \in 1..Min(k, SMOOTHING_WINDOW) |->
        readings[k - Min(k, SMOOTHING_WINDOW) + i].acc]

\* The arithmetic mean of a non-empty sequence, as the fraction num/den.
MeanOf(values) == [num |-> SumSeq(values), den |-> Len(values)]

WindowHoldsLast(buffer, outs, readings) ==
    /\ Len(outs) = Len(readings)
    /\ Len(buffer) <= SMOOTHING_WINDOW
    /\ buffer = LastMagnitudes(readings, Len(readings))
    /\ \A k \in 1..Len(outs) :
          outs[k].val = MeanOf(LastMagnitudes(readings, k))

\* C16: after a classifier has processed its k-th valid reading its window
\* holds exactly the last min(k, SMOOTHING_WINDOW) acceleration magnitudes
\* in arrival order, never more than SMOOTHING_WINDOW, and the smoothed value
\* published for the k-th reading is the arithmetic mean of exactly those
\* values, the k-th included.
C16_SmoothingWindow ==
    /\ WindowHoldsLast(acc_buffer, PublishedBy("hw"),
                       SerialReadings(serial_lines))
    /\ WindowHoldsLast(replay_acc_buffer, PublishedBy("file"),
                       FileReadings(file_lines))

\* C16 witness: the file classifier has processed more readings than the
\* window holds, the evicted magnitude differing from the newest one.
C16_Witness ==
    LET readings == FileReadings(file_lines)
    IN  /\ Len(readings) = SMOOTHING_WINDOW + 1
        /\ Len(replay_acc_buffer) = SMOOTHING_WINDOW
        /\ readings[1].acc # readings[Len(readings)].acc
        /\ readings[1].acc # readings[2].acc

\* C17: every state on the channel, whichever source published it, has its
\* alert flag set exactly when its timer is at least the alert limit the
\* process is configured with.
C17_AlertConsistent ==
    \A i \in 1..Len(tx) : tx[i].alert <=> tx[i].timer >= alert_limit

\* C17 witness: the backfill has published, with the alert set, a row that
\* the serial thread of the earlier process had published, and the file
\* replay has published a state without alert.
C17_Witness ==
    \E i, j \in 1..Len(tx) :
        /\ IsDb(tx[i])
        /\ tx[i].alert
        /\ IsHw(row_data[tx[i].row].published)
        /\ IsFile(tx[j])
        /\ ~tx[j].alert

\* C18: every record the backfill has published carries the activity state,
\* the timer, the smoothed acceleration and the alert flag of the published
\* state that was stored as its row.
C18_BackfillVerbatim ==
    \A i \in 1..Len(tx) :
        IsDb(tx[i]) =>
            LET original == row_data[tx[i].row].published
            IN  /\ tx[i].state = original.state
                /\ tx[i].timer = original.timer
                /\ tx[i].val = original.val
                /\ tx[i].alert = original.alert

\* A step of the file replay: it starts, reads on, or publishes.
IsReplayStep ==
    \/ replay_pc' # replay_pc
    \/ replay_idx' # replay_idx
    \/ Len(tx') = Len(tx) + 1 /\ IsFile(tx'[Len(tx')])

\* C19: no step of the file replay changes last_data_time or
\* is_fallback_active; and with the hardware absent, whatever the replay
\* publishes, the time of the last reading stays where it was (so the idle
\* time the monitor measures keeps growing), the flag once set stays set,
\* and a backfill is never stopped.
C19_ReplayLeavesLiveness ==
    [][/\ IsReplayStep
          => /\ last_data_time' = last_data_time
             /\ is_fallback_active' = is_fallback_active
       /\ hw_pc = "exited"
          => /\ last_data_time' = last_data_time
             /\ is_fallback_active => is_fallback_active'
             /\ bf_outcome' # "stopped"]_vars

\* C19 witness: with the hardware absent the file replay has published in
\* the middle of a backfill batch, and the batch has completed.
C19_Witness ==
    /\ hw_pc = "exited"
    /\ bf_outcome = "complete"
    /\ is_fallback_active
    /\ \E i, j, k \in (bf_start + 1)..Len(tx) :
          /\ i < j /\ j < k
          /\ IsDb(tx[i]) /\ IsFile(tx[j]) /\ IsDb(tx[k])

\* next is lines with one more line read.
ReadsLine(lines, next) ==
    /\ Len(next) = Len(lines) + 1
    /\ SubSeq(next, 1, Len(lines)) = lines

\* A line that holds no reading: broken JSON or plain text.
Malformed(line) == line \in GarbageLines
WellFormed(line) == ~Malformed(line)
\* A line of the port that is not a reading as the port sends it: it holds
\* no reading, or the reading does not begin the line.
PortMalformed(line) == Malformed(line) \/ line.kind = "prefixed"
PortWellFormed(line) == ~PortMalformed(line)

\* C20: a step in which the serial thread reads a malformed line publishes
\* nothing, writes nothing to the cache and leaves acc_buffer,
\* sedentary_timer, last_second, last_data_time and is_fallback_active as
\* they were, and the thread is back at its read; the same for a malformed
\* line of the log file and the replay's locals.  The readings that come
\* after a malformed line are still published (each source has published as
\* many states as it has read well-formed lines).  The serial thread's step
\* on a well-formed line sets last_data_time to the current time and clears
\* the flag, and no other step changes last_data_time or clears the flag.
C20_MalformedSkipped ==
    [][/\ Len(PublishedBy("hw")) = Len(SelectSeq(serial_lines, PortWellFormed))
       /\ Len(PublishedBy("file")) = Len(SelectSeq(file_lines, WellFormed))
       /\ (/\ ReadsLine(serial_lines, serial_lines')
           /\ PortMalformed(serial_lines'[Len(serial_lines')]))
          => /\ UNCHANGED <<tx, sensor_history, acc_buffer, sedentary_timer,
                            last_second, last_data_time,
                            is_fallback_active>>
             /\ hw_pc' = "read"
       /\ (/\ ReadsLine(file_lines, file_lines')
           /\ Malformed(file_lines'[Len(file_lines')]))
          => /\ UNCHANGED <<tx, sensor_history, replay_acc_buffer,
                            replay_sedentary_timer, replay_last_second,
                            last_data_time, is_fallback_active>>
             /\ replay_pc' = "run"
       /\ (/\ ReadsLine(serial_lines, serial_lines')
           /\ PortWellFormed(serial_lines'[Len(serial_lines')]))
          => /\ last_data_time' = now
             /\ ~is_fallback_active'
       /\ (last_data_time' # last_data_time
             \/ (is_fallback_active /\ ~is_fallback_active'))
          => /\ ReadsLine(serial_lines, serial_lines')
             /\ PortWellFormed(serial_lines'[Len(serial_lines')])]_vars

\* C20 witness: in fallback, the serial thread has read a reading, a bad
\* line and, later, a second reading, which was published, moved
\* last_data_time and cleared the flag set in between.
C20_Witness ==
    /\ Len(serial_lines) = 3
    /\ PortWellFormed(serial_lines[1])
    /\ PortMalformed(serial_lines[2])
    /\ PortWellFormed(serial_lines[3])
    /\ Len(PublishedBy("hw")) = 2
    /\ last_data_time = now
    /\ now >= TimeoutSeconds
    /\ bf_outcome = "empty"
    /\ ~is_fallback_active

\* C21: the step in which the serial port fails to open, and the step in
\* which the replay's file fails to open, change nothing but that source's
\* position; a source that failed to open has published nothing and never
\* does; whatever the sources did, the monitor has a step to take; with the
\* port not opened the flag is not set before the timeout has elapsed since
\* startup (last_data_time is the startup time), and it is set eventually.
C21_SourceUnavailable ==
    /\ [][/\ (hw_pc = "open" /\ hw_pc' = "exited")
              => UNCHANGED <<liveness_vars, cache_vars, sedentary_log,
                             content_vars, tx, mon_vars, replay_vars,
                             obs_vars>>
          /\ (replay_pc = "off" /\ replay_pc' = "failed")
              => UNCHANGED <<liveness_vars, cache_vars, sedentary_log,
                             content_vars, tx, mon_vars, hw_vars, obs_vars>>
          /\ hw_pc = "exited" => hw_pc' = "exited"
          /\ replay_pc = "failed" => replay_pc' = "failed"]_vars
    /\ [](hw_pc = "exited" => PublishedBy("hw") = <<>>)
    /\ [](replay_pc = "failed" => PublishedBy("file") = <<>>)
    /\ [](ENABLED MonitorStep)
    /\ []((hw_pc = "exited" /\ is_fallback_active)
             => (last_data_time = 0 /\ now >= TimeoutSeconds))
    /\ (hw_pc = "exited" ~> is_fallback_active)

\* C21 witness: neither the port nor the file could be opened, the monitor
\* entered fallback when the timeout had elapsed since startup, and the
\* client has received the stored row from the backfill.
C21_Witness ==
    /\ hw_pc = "exited"
    /\ replay_pc = "failed"
    /\ is_fallback_active
    /\ bf_outcome = "complete"
    /\ now = TimeoutSeconds
    /\ LiveEvents("o1") # <<>>
    /\ IsDb(LiveEvents("o1")[1].msg)

\* Some setting is present in the environment and does not parse.
InvalidSetting == \E s \in Settings : env[s] = Invalid

\* C22: with a setting present that does not parse, the process has not
\* begun ingestion: the serial thread has read no line, no reading was
\* recorded and nothing was published.
C22_ConfigErrorFatal ==
    InvalidSetting =>
        /\ serial_lines = <<>>
        /\ hw_n = 0
        /\ tx = <<>>

\* The hardware has been silent for the timeout and the flag is false.
IdleInLive ==
    /\ ~is_fallback_active
    /\ now - last_data_time >= TimeoutSeconds

\* C23: whenever the flag is false and no reading has been recorded for the
\* timeout, and whatever the monitor is doing then (waiting for its tick, or
\* still inside a backfill that a reading interrupted), the monitor goes on
\* to enter fallback and to start a new backfill, unless a reading is
\* recorded first.
C23_NoTerminalState ==
    IdleInLive ~> (mon_pc = "backfill" \/ now - last_data_time < TimeoutSeconds)

\* C23 witness: a second backfill has just been started; the first, of two
\* rows, was interrupted by a reading after its first record, and the
\* hardware has then been silent for the timeout again.
C23_Witness ==
    /\ mon_pc = "backfill"
    /\ last_data_time > 0
    /\ Len(bf_table) >= 2
    /\ Len(PublishedBy("db")) = 1
    /\ bf_start = Len(tx)
    /\ PublishedBy("hw") # <<>>

\* No reading has been recorded for the timeout, the table holds a row and
\* no read of the table has failed.
Outage ==
    /\ now - last_data_time >= TimeoutSeconds
    /\ sedentary_log # <<>>
    /\ bf_outcome # "error"

\* C24: in an outage that never ends, with the storage answering, the
\* backfill comes to publish a record again and again: there is no point
\* after which the hardware is silent, the table holds a row and nothing
\* more is published.
C24_ContinuousSignal ==
    <>[]Outage => []<>(mon_pc = "bf_send")

\* The step publishes one message, of the given source, and nothing else.
PublishesOne(src) ==
    /\ Len(tx') = Len(tx) + 1
    /\ SubSeq(tx', 1, Len(tx)) = tx
    /\ tx'[Len(tx')].src = src

\* C25: with the Redis server answering or not, and coming and going, the
\* serial thread publishes each reading and is back at its read, and the
\* backfill publishes each row and goes on to the next; a write to the cache
\* that fails changes nothing and stops nothing, so that a batch that is not
\* interrupted by a reading is published whole and only a failed read of the
\* table makes a backfill fail.  The db worker passes to the next message
\* after an INSERT, failed or not, and ends only when it has lagged.
C25_TransientFailures ==
    /\ [][/\ hw_n' # hw_n
              => /\ PublishesOne("hw")
                 /\ hw_pc' = "read"
                 /\ ~redis_up => UNCHANGED cache_vars
          /\ (mon_pc = "bf_send" /\ mon_pc' # "bf_send")
              => /\ PublishesOne("db")
                 /\ tx'[Len(tx')].row = rows_chronological[bf_idx]
                 /\ mon_pc' \in {"bf_lpush", "bf_check", "tick"}
                 /\ mon_pc' = "tick" => bf_outcome' = "complete"
          /\ (mon_pc = "bf_lpush" /\ mon_pc' # "bf_lpush")
              => /\ mon_pc' = "bf_ltrim"
                 /\ ~redis_up => UNCHANGED cache_vars
          /\ (mon_pc = "bf_ltrim" /\ mon_pc' # "bf_ltrim")
              => /\ mon_pc' \in {"bf_check", "tick"}
                 /\ bf_idx' = bf_idx + 1
                 /\ mon_pc' = "tick" => bf_outcome' = "complete"
                 /\ ~redis_up => UNCHANGED cache_vars
          /\ db_rx' # db_rx
              => /\ db_rx' = db_rx + 1
                 /\ db_pc' = "run"
                 /\ UNCHANGED <<tx, hw_vars, mon_vars>>
          /\ (db_pc = "run" /\ db_pc' # "run")
              => Len(tx) - db_rx > ChannelCapacity]_vars
    /\ [](Len(PublishedBy("hw")) = hw_n)
    /\ [](bf_outcome = "complete" => BatchRows = MostRecentRows(bf_table))
    /\ [](bf_outcome = "error" => BatchSent = <<>>)

\* C25 witness: the Redis server came and went: some published states are in
\* the cache and some are not; a whole batch of two rows and a reading were
\* published; the db worker's first INSERT failed and its second stored the
\* second published state.
C25_Witness ==
    /\ pushed # <<>>
    /\ Len(pushed) < Len(tx)
    /\ bf_outcome = "complete"
    /\ Len(BatchSent) >= 2
    /\ PublishedBy("hw") # <<>>
    /\ db_pc = "run"
    /\ db_rx = 2
    /\ Len(sedentary_log) = RowsAtStart + 1
    /\ row_data[Len(sedentary_log)].published = tx[2]

\* C26: at every step in which the monitor's enter_fallback sets the flag,
\* no reading has been recorded for the timeout.
C26_NoSpuriousFallback ==
    [][(mon_pc = "enter" /\ mon_pc' = "backfill")
          => now - last_data_time >= TimeoutSeconds]_vars

\* The backfill call returns in this step: at the end of the rows, with no
\* rows, or with the error of the query.
BackfillReturns ==
    /\ bf_outcome = "running"
    /\ bf_outcome' \in {"complete", "empty", "error"}

\* C27: last_data_time changes only in the store of record_data_received;
\* the flag turns true only in the monitor's enter_fallback and false only
\* in the store of record_data_received; no step of the monitor inside
\* backfill_from_database changes either, so that a backfill that returns
\* at the end of its rows, with no rows or with an error, and during which
\* no reading cleared the flag, returns with the flag true.
C27_LivenessWriters ==
    [][/\ last_data_time' # last_data_time
           => (hw_pc = "read" /\ hw_pc' = "rdr_load")
       /\ (~is_fallback_active /\ is_fallback_active')
           => (mon_pc = "enter" /\ mon_pc' = "backfill")
       /\ (is_fallback_active /\ ~is_fallback_active')
           => (hw_pc = "rdr_clear" /\ hw_pc' = "rdr_log")
       /\ (InBackfill /\ mon_pc' # mon_pc)
           => UNCHANGED <<last_data_time, is_fallback_active>>
       /\ (BackfillReturns /\ bf_flip_at = -1) => is_fallback_active'
      ]_vars

\* C27 witness: with readings recorded before, a backfill has found the
\* table empty and returned, and the flag is still true.
C27_Witness ==
    /\ bf_outcome = "empty"
    /\ mon_pc = "tick"
    /\ is_fallback_active
    /\ last_data_time > 0

\* C28: a backfill is in flight exactly while the monitor task is inside
\* backfill_from_database, where it takes no tick; so a step that starts a
\* backfill finds the previous one returned.
C28_OneBackfillInFlight ==
    /\ [][(mon_pc # "backfill" /\ mon_pc' = "backfill")
             => (bf_outcome # "running" /\ mon_pc = "enter")]_vars
    /\ [](bf_outcome = "running" <=> InBackfill)

\* C28 witness: a batch has published a record and sleeps before its next
\* one; meanwhile the hardware has come back (the flag is false) and has
\* been silent for the timeout again.
C28_Witness ==
    /\ mon_pc = "bf_check"
    /\ bf_outcome = "running"
    /\ Len(BatchSent) >= 1
    /\ ~is_fallback_active
    /\ last_data_time > 0
    /\ now - last_data_time >= TimeoutSeconds

\* The last backfill failed: the read of the table failed or gave no rows.
BackfillFailed == bf_outcome \in {"error", "empty"}

\* The monitor attempts no backfill while the flag a failed backfill left
\* true has not been cleared: it ticks and checks, and the failed backfill
\* published nothing.
NoRetryWhileInFallback ==
    BackfillFailed =>
        /\ BatchSent = <<>>
        /\ ~InBackfill
        /\ is_fallback_active => mon_pc \in {"tick", "check"}

\* C29: a backfill whose read failed or gave no rows has published nothing
\* and has returned to the monitor's loop, which goes on ticking; the
\* monitor starts no backfill while the flag has not been cleared by a
\* reading, and when it starts the next one no reading has been recorded
\* for the timeout.
C29_FailureNotRetried ==
    /\ []NoRetryWhileInFallback
    /\ [][(BackfillFailed /\ mon_pc = "enter" /\ mon_pc' = "backfill")
             => (last_data_time > 0
                   /\ now - last_data_time >= TimeoutSeconds)]_vars


(***************************************************************************)
(* C30                                                                     *)
(***************************************************************************)
\* A classifier that has read nothing: empty window, timer 0, no label.
FreshClassifier ==
    [buffer |-> <<>>, timer |-> 0, last |-> <<>>, outs |-> <<>>]

\* The classifier of source src run on its own over the given readings,
\* from a fresh state, with nothing else running: its final window, timer
\* and last label, and the states it emits.
RECURSIVE RunAlone(_, _)
RunAlone(src, readings) ==
    IF readings = <<>> THEN FreshClassifier
    ELSE LET before == RunAlone(src, SubSeq(readings, 1, Len(readings) - 1))
             reading == readings[Len(readings)]
             buffer == PushAcc(before.buffer, reading.acc)
             smoothed_acc == SmoothedAcc(buffer)
             state == IF src = "hw"
                      THEN classify_state(reading.pir, smoothed_acc)
                      ELSE replay_classify_state(reading.pir, smoothed_acc)
             changed == SecondChanged(before.last, reading.ts)
             timer == IF changed THEN TimerAfter(state, before.timer)
                                 ELSE before.timer
         IN  [buffer |-> buffer,
              timer |-> timer,
              last |-> IF changed THEN <<reading.ts>> ELSE before.last,
              outs |-> Append(before.outs,
                              ProcessedState(src, Len(before.outs) + 1,
                                             state, timer, smoothed_acc,
                                             Alert(timer, alert_limit),
                                             reading.ts))]

\* The source's window, timer, label and emitted states are those of the
\* same source run alone over the readings it has read itself.
AsIfAlone(src, readings, buffer, timer, last) ==
    LET alone == RunAlone(src, readings)
    IN  /\ buffer = alone.buffer
        /\ timer = alone.timer
        /\ last = alone.last
        /\ PublishedBy(src) = alone.outs

\* C30: the smoothing window, the sedentary timer and the last second label
\* of the hardware source and of each file replay, and the sequence of
\* states each of them has emitted, are at every moment those the source
\* would have had running alone over its own readings, whether or not the
\* other sources (the hardware, another file replay, the backfill) are
\* running and whatever they read.
C30_ClassifierIsolation ==
    /\ AsIfAlone("hw", SerialReadings(serial_lines),
                 acc_buffer, sedentary_timer, last_second)
    /\ AsIfAlone("file", FileReadings(file_lines), replay_acc_buffer,
                 replay_sedentary_timer, replay_last_second)
    /\ AsIfAlone("file2", FileReadings(file2_lines), replay2_acc_buffer,
                 replay2_sedentary_timer, replay2_last_second)

\* C30 witness: the hardware, both replays and the backfill have all
\* published, the second replay last and after the first replay had counted
\* a sedentary second, and the hardware read something else than the
\* replays did.
C30_Witness ==
    /\ PublishedBy("hw") # <<>>
    /\ PublishedBy("file") # <<>>
    /\ PublishedBy("file2") # <<>>
    /\ BatchSent # <<>>
    /\ replay_sedentary_timer > 0
    /\ replay2_sedentary_timer > 0
    /\ tx[Len(tx)].src = "file2"
    /\ serial_lines # file_lines
    /\ serial_lines # file2_lines

(***************************************************************************)
(* C31                                                                     *)
(***************************************************************************)
\* The backfill records on the channel after its i-th message.
DbRecordsAfter(i) == Len(SelectSeq(SubSeq(tx, i + 1, Len(tx)), IsDb))

\* The records of the current/last backfill among the first i messages.
BatchRecordsUpTo(i) ==
    Len(SelectSeq(SubSeq(tx, bf_start + 1, i), IsDb))

\* A reading's record_data_received cleared the flag while the current/last
\* backfill was in flight (after bf_flip_at of its records): after every
\* hardware state sent since then, the state of that reading included, at
\* most one backfill record is on the channel.
AtMostOneAfterHardwareState ==
    bf_flip_at # -1 =>
        \A i \in (bf_start + 1)..Len(tx) :
            (IsHw(tx[i]) /\ BatchRecordsUpTo(i) >= bf_flip_at)
                => DbRecordsAfter(i) <= 1

NeverIdleForTimeout == SecondsSinceLastData < TimeoutSeconds

\* C31: once a reading has been recorded while a backfill is in flight, at
\* most one more backfill record is published after the hardware state of
\* that reading; and as long as the hardware has never been idle for the
\* timeout, no backfill record is published at all, so none between two
\* consecutive hardware states.
C31_BoundedDualPublish ==
    /\ []AtMostOneAfterHardwareState
    /\ []NeverIdleForTimeout => [](SelectSeq(tx, IsDb) = <<>>)

\* C31 witness: a reading was recorded after the backfill's flag check of a
\* row had passed; its hardware state is on the channel and that one row
\* was published after it, the replay then stopping with a row unsent.
C31_Witness ==
    /\ bf_flip_pc = "bf_send"
    /\ bf_outcome = "stopped"
    /\ Len(tx) >= 2
    /\ IsHw(tx[Len(tx) - 1])
    /\ IsDb(tx[Len(tx)])
    /\ Len(BatchSent) < Len(rows_chronological)

(***************************************************************************)
(* C32                                                                     *)
(***************************************************************************)
\* C32: the db worker never ends, and every state published on the channel
\* is eventually received by it, to be inserted or to have its insert error
\* printed, also when the worker has fallen more than the channel's
\* capacity behind.
C32_WriterForLifetime ==
    /\ [](db_pc = "run")
    /\ \A i \in 1..MaxSamples : (Len(tx) >= i) ~> (db_rx >= i)

(***************************************************************************)
(* C33                                                                     *)
(***************************************************************************)
\* The rows of the table written from the given channel message.
RowsWrittenFrom(m) ==
    {r \in 1..Len(sedentary_log) : row_data[sedentary_log[r]].published = m}

\* Row r was written from a backfill record, not from a classified reading.
IsReplayedCopy(r) == IsDb(row_data[r].published)

\* Every backfill record the worker has received is one new row of the
\* table, other than the row it was replayed from, with the record's state,
\* timer and value.
ReplayedRecordsInserted ==
    \A i \in 1..db_rx :
        IsDb(tx[i]) =>
            /\ Cardinality(RowsWrittenFrom(tx[i])) = 1
            /\ \A r \in RowsWrittenFrom(tx[i]) :
                  /\ sedentary_log[r] # tx[i].row
                  /\ row_data[sedentary_log[r]].state = tx[i].state
                  /\ row_data[sedentary_log[r]].timer_seconds = tx[i].timer
                  /\ row_data[sedentary_log[r]].acceleration_val = tx[i].val

\* Once the worker has received all the k records of a backfill that is
\* over, the table holds k rows it did not hold when the backfill read it,
\* written from those records.
BackfillGrowsTable ==
    (bf_outcome \in {"complete", "stopped"} /\ db_rx = Len(tx)) =>
        /\ Cardinality({r \in 1..Len(sedentary_log) :
                           /\ r > Len(bf_table)
                           /\ \E j \in 1..Len(BatchSent) :
                                 row_data[sedentary_log[r]].published
                                     = BatchSent[j]})
              = Len(BatchSent)
        /\ Len(sedentary_log) >= Len(bf_table) + Len(BatchSent)

\* A backfill that has read the table replays its most recent BatchSize
\* rows, the replayed copies among them like any other row.
CopiesAreReplayed ==
    (InBackfill /\ mon_pc # "backfill") =>
        \A j \in 1..Len(bf_table) :
            j > Len(bf_table) - BatchSize =>
                \E p \in 1..Len(rows_chronological) :
                    rows_chronological[p] = bf_table[j]

====
